---- MODULE Spec2Model ----
(***************************************************************************)
(* A model of the stream-operator engine of the repository: the operators  *)
(* of builtins.py (Epoch, GroupBy, Join) with the helpers of utils.py they *)
(* use.  Every operator calls its downstream operator synchronously; the   *)
(* model records those calls in a log per operator.                        *)
(*                                                                         *)
(* A tuple (a Python dict from field name to OpResult) is a function from  *)
(* strings to OpResults.  A float is an integer number of Ticks, so that   *)
(* 1.2 is 12 ticks when a tick is 0.1; float rounding is not modelled.     *)
(***************************************************************************)
EXTENDS Integers, Sequences, FiniteSets, TLC

(***************************************************************************)
(* Bounds of the model.                                                    *)
(***************************************************************************)
\* Epoch ids carried by the records fed to the join: 0..MaxEpoch.
MaxEpoch == 2
\* Calls (next or reset, on either side) made on one join.
MaxCalls == 4
\* Times of the tuples fed to Epoch, in ticks: 0..MaxTime.
MaxTime == 25
\* Tuples a GroupBy accepts between two resets.
MaxAccepts == 5
\* Result objects the caller of the 2.5-Flash distinct allocates.
MaxObjs == 3

\* The sums a caller of sum_ints accumulates: calls stop above MaxSum.
MaxSum == 100

\* Tuples the 3.7-sonnet groupby accepts between two resets.
MaxGroupCalls == 3

\* Iterations counted of the loop of the py-files join's next.
MaxIter == 4

\* Largest payload of the results given to the extraction helpers.
MaxPayload == 15

(***************************************************************************)
(* utils.py: OpResult, Tuple and the helpers.                              *)
(***************************************************************************)
IntResult(n) == [tag |-> "Int", v |-> n]
FloatResult(x) == [tag |-> "Float", v |-> x]
EmptyResult == [tag |-> "Empty", v |-> 0]

EmptyTuple == [k \in {} |-> EmptyResult]

\* int_of_op_result / lookup_int: the lookup succeeds iff the key is there
\* and holds an int; otherwise KeyError or TypeError is raised.
lookup_int_ok(key, tup) == key \in DOMAIN tup /\ tup[key].tag = "Int"
lookup_int(key, tup) == tup[key].v

\* float_of_op_result / lookup_float.
lookup_float_ok(key, tup) == key \in DOMAIN tup /\ tup[key].tag = "Float"
lookup_float(key, tup) == tup[key].v

\* dict.update: the fields of t overwrite those of merged.
dict_update(merged, t) ==
    [k \in DOMAIN merged \cup DOMAIN t |-> IF k \in DOMAIN t THEN t[k] ELSE merged[k]]

\* merge_tuples(*tuples, precedence='first'): update in reversed order, so
\* that the earliest tuple is written last and wins.
RECURSIVE merge_first(_, _)
merge_first(tuples, merged) ==
    IF tuples = <<>> THEN merged
    ELSE merge_first(SubSeq(tuples, 1, Len(tuples) - 1),
                     dict_update(merged, tuples[Len(tuples)]))

merge_tuples_last(tuples) ==
    merge_first([i \in 1 .. Len(tuples) |-> tuples[Len(tuples) + 1 - i]], EmptyTuple)

merge_tuples(tuples) == merge_first(tuples, EmptyTuple)

\* A call made on the downstream operator.
NextCall(tup) == [op |-> "next", tup |-> tup]
ResetCall(tup) == [op |-> "reset", tup |-> tup]

(***************************************************************************)
(* The state: the fields of the operators, and history variables that      *)
(* record what the operators received and what they called downstream.     *)
(***************************************************************************)
\* Join: the state shared by the two sides made by one join(...) call.
VARIABLES
    h_table,     \* h_table["left"] is h_table1, h_table["right"] is h_table2
    curr_epoch,  \* left_curr_epoch[0] and right_curr_epoch[0]
    j_out,       \* history: the calls made on next_op, in order
    j_calls,     \* history: number of calls whose epoch was read
    j_seen,      \* history: per side, the epochs its calls carried
    j_prov,      \* history: per side and stored key, the record that stored it
    j_cnt,       \* history: per side, records accepted per (key, epoch)
    j_mlog,      \* history: one entry per merged tuple forwarded
    j_last,      \* history: the last call whose epoch was read
    j_end        \* history: per side, the epoch of the reset that ended its stream

jvars == <<h_table, curr_epoch, j_out, j_calls, j_seen, j_prov, j_cnt, j_mlog, j_last, j_end>>

\* Epoch.
VARIABLES
    epoch_width,     \* self._epoch_width, set at construction
    epoch_boundary,  \* self._epoch_boundary; 0 is the float 0.0
    eid,             \* self._eid
    e_out,           \* history: the calls the last call made on next_op
    e_last,          \* history: the last call received: whether time was read
                     \*   (ok) and whether an exception left the call (raised)
    e_t0,            \* history: time of the first tuple accepted since
                     \*   construction or the last reset; -1 when there is none
    e_prev,          \* history: time of the last tuple accepted
    e_mono,          \* history: the times accepted since e_t0 strictly increase
    e_was_reset,     \* history: a reset has been received
    e_run            \* history: the whole run, while it is the scenario's

evars == <<epoch_width, epoch_boundary, eid, e_out, e_last, e_t0, e_prev, e_mono,
           e_was_reset, e_run>>

\* GroupBy.
VARIABLES
    groupby_func,  \* self._groupby_func: "single_group" or "filter_groups"
    reduce_func,   \* self._reduce_func: "counter" or "sum_ints"
    hash_table,    \* self._hash_table: the (key, value) entries in insertion order
    g_out,         \* history: the calls the last call made on next_op
    g_last,        \* history: the last call received
    g_n,           \* history: tuples accepted since the last reset
    g_keys,        \* history: grouping keys of the tuples accepted since the last reset
    g_fresh,       \* history: the hash table of a GroupBy constructed at the last reset
                   \* (or with this one) and given the same tuples since
    g_flushed      \* history: some earlier reset has forwarded a group

gvars == <<groupby_func, reduce_func, hash_table, g_out, g_last, g_n, g_keys, g_fresh,
           g_flushed>>

\* Distinct.
VARIABLES
    hash_set,      \* self._hash_set: the keys seen since the last reset
    d_out,         \* history: the calls the last call made on next_op
    d_last         \* history: the last call received, and the set it found

dvars == <<hash_set, d_out, d_last>>

\* distinct of the 2.5-Flash translation, and the caller's heap of results.
VARIABLES
    heap,          \* the OpResult objects allocated: heap[id] is [tag, v]
    h_tbl,         \* h_tbl: the hashable keys seen since the last reset
    f_out,         \* history: the calls the last call made on next_op
    f_last,        \* history: the last call received, and the set it found
    f_vals         \* history: the values of the grouping function since the
                   \*   last reset, as field name -> [tag, v]

fvars == <<heap, h_tbl, f_out, f_last, f_vals>>

\* sum_ints of the 3.7-sonnet translation, folded over tuples by a caller.
VARIABLES
    init_val,      \* the accumulator the caller holds
    s_last         \* history: the last call: accumulator, tuple and outcome

svars == <<init_val, s_last>>

\* epoch_op of the o4-mini translation, and the dict its caller passed.
VARIABLES
    o4_boundary,   \* boundary
    o4_eid,        \* eid
    o4_tup,        \* the caller's dict, as it is when the last call has returned
    o4_out,        \* history: the calls the last call made on next_op
    o4_last        \* history: the last call received, with the dict as passed

ovars == <<o4_boundary, o4_eid, o4_tup, o4_out, o4_last>>

\* groupby of the 3.7-sonnet translation.
VARIABLES
    sn_h_tbl,      \* h_tbl: entries [str, key, val] in insertion order
    sn_out,        \* history: the calls the last call made on next_op
    sn_last,       \* history: the last call received
    sn_n           \* history: tuples accepted since the last reset

nvars == <<sn_h_tbl, sn_out, sn_last, sn_n>>

\* join_op of the o4-mini translation: the closure cells of the two sides.
VARIABLES
    my_epoch_ref,     \* my_epoch_ref[S]: the parameter my_epoch_ref of make_side for S
    other_epoch_ref,  \* other_epoch_ref[S]: the parameter other_epoch_ref of make_side for S
    o4j_tbl,          \* tbl1 and tbl2
    o4j_out,          \* history: the calls made on next_op, in order
    o4j_last          \* history: the last call received and how it ended

ojvars == <<my_epoch_ref, other_epoch_ref, o4j_tbl, o4j_out, o4j_last>>

\* Query.join of py-files/builtins_translated.py: the closure of each side
\* and the position of the next handler that is running.
VARIABLES
    curr_epoch_cell,   \* curr_epoch_cell[S]: the variable curr_epoch of handle_join_side for S
    other_epoch_cell,  \* other_epoch_cell[S]: the variable other_epoch of handle_join_side for S
    curr_h_tbl,        \* curr_h_tbl[S]: the values stored in the table of S, in order
    pj_pc,             \* where the running next handler is: "idle" when none runs
    pj_out,            \* history: the calls made on next_op / reset_op, in order
    pj_last,           \* history: the last handler that ended
    pj_calls           \* history: number of handlers started

pjvars == <<curr_epoch_cell, other_epoch_cell, curr_h_tbl, pj_pc, pj_out, pj_last, pj_calls>>

\* The merges of GroupBy.reset, Distinct.reset and the join's next.
VARIABLES
    m_site,       \* history: which operator made the last merge
    m_listed,     \* history: the tuples it merged, in the order of the call
    m_merged,     \* the tuple it forwarded
    m_conflicts,  \* history: the operators that merged tuples sharing a field name
    m_val         \* history: the accumulated value GroupBy.reset had for the group

mvars == <<m_site, m_listed, m_merged, m_conflicts, m_val>>

\* Filter, Map and Split, each in front of recording operators.
VARIABLES
    pipe_out,    \* history: the calls the last handler made downstream, in order
    pipe_last,   \* history: the last handler called and what it was given
    pipe_calls   \* history: number of handlers called

pvars == <<pipe_out, pipe_last, pipe_calls>>

\* int_of_op_result and float_of_op_result applied to a result.
VARIABLES
    conv_last    \* history: the function applied last, its argument and outcome

cvars == <<conv_last>>

\* groupby of the 3.7-sonnet translation with the reduction sum_ints.
VARIABLES
    sg_tbl,    \* h_tbl: one entry per group, in order of insertion
    sg_fed,    \* history: per entry, what the group was fed since the last reset
    sg_out,    \* history: the calls the last handler made on next_op
    sg_last    \* history: the last handler called

sgvars == <<sg_tbl, sg_fed, sg_out, sg_last>>

\* count_pkts: Epoch over GroupBy(single_group, counter).
VARIABLES
    cp_boundary,  \* the EpochOperator's _epoch_boundary
    cp_eid,       \* the EpochOperator's _eid
    cp_table,     \* the GroupByOperator's _hash_table
    cp_out,       \* history: every call GroupBy has made on next_op
    cp_tagged,    \* history: for each eid, how many tuples Epoch passed on with it
    cp_n,         \* history: how many tuples Epoch accepted
    cp_done       \* history: the external reset has been received

cpvars == <<cp_boundary, cp_eid, cp_table, cp_out, cp_tagged, cp_n, cp_done>>

vars == <<jvars, evars, gvars, dvars, fvars, svars, ovars, nvars, ojvars, pjvars, mvars, pvars, cvars, sgvars, cpvars>>

\* The variables of the operators other than the one an action belongs to.
exceptJoin == <<evars, gvars, dvars, fvars, svars, ovars, nvars, ojvars, pjvars, mvars, pvars, cvars, sgvars, cpvars>>
exceptEpoch == <<jvars, gvars, dvars, fvars, svars, ovars, nvars, ojvars, pjvars, mvars, pvars, cvars, sgvars, cpvars>>
exceptGroupBy == <<jvars, evars, dvars, fvars, svars, ovars, nvars, ojvars, pjvars, mvars, pvars, cvars, sgvars, cpvars>>
exceptSplit == <<jvars, evars, fvars, svars, ovars, nvars, ojvars, pjvars, mvars, pvars, cvars, sgvars, cpvars>>
exceptFlash == <<jvars, evars, gvars, dvars, svars, ovars, nvars, ojvars, pjvars, mvars, pvars, cvars, sgvars, cpvars>>
exceptSum == <<jvars, evars, gvars, dvars, fvars, ovars, nvars, ojvars, pjvars, mvars, pvars, cvars, sgvars, cpvars>>
exceptO4Epoch == <<jvars, evars, gvars, dvars, fvars, svars, nvars, ojvars, pjvars, mvars, pvars, cvars, sgvars, cpvars>>
exceptSonnetGroupBy == <<jvars, evars, gvars, dvars, fvars, svars, ovars, ojvars, pjvars, mvars, pvars, cvars, sgvars, cpvars>>
exceptO4Join == <<jvars, evars, gvars, dvars, fvars, svars, ovars, nvars, pjvars, mvars, pvars, cvars, sgvars, cpvars>>
exceptPyJoin == <<jvars, evars, gvars, dvars, fvars, svars, ovars, nvars, ojvars, mvars, pvars, cvars, sgvars, cpvars>>
exceptMerge == <<jvars, evars, gvars, dvars, fvars, svars, ovars, nvars, ojvars, pjvars, pvars, cvars, sgvars, cpvars>>
exceptPipe == <<jvars, evars, gvars, dvars, fvars, svars, ovars, nvars, ojvars, pjvars, mvars, cvars, sgvars, cpvars>>
exceptConv == <<jvars, evars, gvars, dvars, fvars, svars, ovars, nvars, ojvars, pjvars, mvars, pvars, sgvars, cpvars>>
exceptSumGroup == <<jvars, evars, gvars, dvars, fvars, svars, ovars, nvars, ojvars, pjvars, mvars, pvars, cvars, cpvars>>
exceptCountPkts == <<jvars, evars, gvars, dvars, fvars, svars, ovars, nvars, ojvars, pjvars, mvars, pvars, cvars, sgvars>>

(***************************************************************************)
(* Join (builtins.py, _JoinSideOperator and join).                         *)
(***************************************************************************)
Sides == {"left", "right"}
Other(S) == IF S = "left" THEN "right" ELSE "left"

eid_key == "eid"

Epochs == 0 .. MaxEpoch

\* What the key extractors return, (key_dict, vals_dict).  The extractors are
\* the caller's; main.py builds keys with rename_filtered_keys([(..., "host")])
\* and values with filter_groups([...]).  The values of host 1 share no field
\* name; the right value of host 2 has a field of the left value and a field
\* of the key.
Extracted(S) ==
    IF S = "left"
    THEN { [key_dict |-> ("host" :> IntResult(1)), vals_dict |-> ("syns" :> IntResult(3))],
           [key_dict |-> ("host" :> IntResult(2)), vals_dict |-> ("syns" :> IntResult(3))] }
    ELSE { [key_dict |-> ("host" :> IntResult(1)), vals_dict |-> ("acks" :> IntResult(1))],
           [key_dict |-> ("host" :> IntResult(2)),
            vals_dict |-> ("syns" :> IntResult(4) @@ "host" :> IntResult(9))] }

KeyDicts == { x.key_dict : x \in Extracted("left") \cup Extracted("right") }

\* The tuple a call carries, as far as the join reads it: its eid_key field.
EidTuples == { (eid_key :> IntResult(e)) : e \in Epochs } \cup { EmptyTuple }

\* The guard of the downstream reset inside the advancement loop.
join_reset_always(other, cur) == TRUE

join_reset_due(other, cur) == other > cur

\* The loop "while epoch > current_epoch_ref[0]": the resets it forwards
\* and the value it leaves in current_epoch_ref[0].
RECURSIVE join_advance(_, _, _, _)
join_advance(cur, other, epoch, out) ==
    IF epoch > cur
    THEN join_advance(cur + 1, other, epoch,
                      IF join_reset_due(other, cur)
                      THEN Append(out, ResetCall(eid_key :> IntResult(cur)))
                      ELSE out)
    ELSE [epoch_ref |-> cur, out |-> out]

\* The loop "while reset_epoch > current_epoch_ref[0]" of reset.
RECURSIVE join_reset_advance(_, _, _, _)
join_reset_advance_quiet(cur, other, reset_epoch, out) ==
    [epoch_ref |-> IF reset_epoch > cur THEN reset_epoch ELSE cur, out |-> out]

join_reset_advance(cur, other, reset_epoch, out) ==
    IF reset_epoch > cur
    THEN join_reset_advance(cur + 1, other, reset_epoch,
                            IF join_reset_due(other, cur)
                            THEN Append(out, ResetCall(eid_key :> IntResult(cur)))
                            ELSE out)
    ELSE [epoch_ref |-> cur, out |-> out]

\* join_key_dict: the extracted key with the epoch under eid_key.
join_key_no_epoch(key_dict, epoch) == key_dict

join_key(key_dict, epoch) == dict_update(key_dict, eid_key :> IntResult(epoch))

\* key in other_h_table
table_has_never(tbl, fk) == FALSE

table_has(tbl, fk) == fk \in DOMAIN tbl

\* dict.pop(key) on the other side's table.
table_keep(tbl, fk) == tbl

table_pop(tbl, fk) == [k \in DOMAIN tbl \ {fk} |-> tbl[k]]

\* tbl[key] = vals
table_put_purging(tbl, fk, vals) ==
    [k \in {j \in DOMAIN tbl : j[eid_key].v >= fk[eid_key].v} \cup {fk} |->
        IF k = fk THEN vals ELSE tbl[k]]

table_put(tbl, fk, vals) ==
    [k \in DOMAIN tbl \cup {fk} |-> IF k = fk THEN vals ELSE tbl[k]]

\* The merged tuple of a match.
join_merge_arriving_only(join_key_dict, vals_dict, other_vals_dict) ==
    merge_tuples(<<join_key_dict, vals_dict>>)

join_merge(join_key_dict, vals_dict, other_vals_dict) ==
    merge_tuples(<<join_key_dict, vals_dict, other_vals_dict>>)

JoinInit ==
    /\ h_table = [S \in Sides |-> EmptyTuple]
    /\ curr_epoch = [S \in Sides |-> 0]
    /\ j_out = <<>>
    /\ j_calls = 0
    /\ j_seen = [S \in Sides |-> {}]
    /\ j_prov = [S \in Sides |-> EmptyTuple]
    /\ j_cnt = [S \in Sides |-> EmptyTuple]
    /\ j_mlog = <<>>
    /\ j_last = [op |-> "none"]
    /\ j_end = [S \in Sides |-> {}]

count_up(cnt, fk) ==
    [k \in DOMAIN cnt \cup {fk} |->
        (IF k \in DOMAIN cnt THEN cnt[k] ELSE 0) + (IF k = fk THEN 1 ELSE 0)]

\* _JoinSideOperator.next on side S.
JoinNext(S, key_dict, vals_dict, tup) ==
    /\ j_calls < MaxCalls
    /\ UNCHANGED exceptJoin
    /\ IF ~lookup_int_ok(eid_key, tup)
       THEN \* lookup_int raises; the handler prints and returns
            UNCHANGED jvars
       ELSE
         /\ j_calls' = j_calls + 1
         /\ LET current_epoch == lookup_int(eid_key, tup)
                O == Other(S)
                adv == join_advance(curr_epoch[S], curr_epoch[O], current_epoch, <<>>)
                fk == join_key(key_dict, current_epoch)
                rec == [key |-> key_dict, epoch |-> current_epoch, vals |-> vals_dict,
                        used |-> 0]
            IN
            /\ curr_epoch' = [curr_epoch EXCEPT ![S] = adv.epoch_ref]
            /\ j_seen' = [j_seen EXCEPT ![S] = @ \cup {current_epoch}]
            /\ j_cnt' = [j_cnt EXCEPT ![S] = count_up(@, <<key_dict, current_epoch>>)]
            /\ j_last' = [op |-> "next", side |-> S, epoch |-> current_epoch,
                          before |-> curr_epoch, at |-> Len(j_out),
                          tables |-> h_table, key |-> fk,
                          matched |-> table_has(h_table[O], fk)]
            /\ j_end' = j_end
            /\ IF table_has(h_table[O], fk)
               THEN \* a match: consume the other side's entry and forward the merge
                 LET other_vals_dict == h_table[O][fk]
                     merged_tup == join_merge(fk, vals_dict, other_vals_dict)
                     other_after == table_pop(h_table[O], fk)
                     stored == j_prov[O][fk]
                     before == j_out \o adv.out
                 IN
                 /\ h_table' = [h_table EXCEPT ![O] = other_after]
                 /\ j_out' = Append(before, NextCall(merged_tup))
                 /\ j_prov' = [j_prov EXCEPT ![O] =
                                  [k \in DOMAIN other_after |->
                                      IF k = fk THEN [stored EXCEPT !.used = @ + 1]
                                      ELSE j_prov[O][k]]]
                 /\ j_mlog' = Append(j_mlog,
                                  [pos |-> Len(before) + 1,
                                   side |-> S,
                                   arriving |-> rec,
                                   stored |-> stored,
                                   late |-> current_epoch < curr_epoch[S]])
               ELSE \* no match yet: store the values in this side's table
                 /\ h_table' = [h_table EXCEPT ![S] = table_put(@, fk, vals_dict)]
                 /\ j_out' = j_out \o adv.out
                 /\ j_prov' = [j_prov EXCEPT ![S] = table_put(@, fk, rec)]
                 /\ j_mlog' = j_mlog

\* _JoinSideOperator.reset on side S.
JoinSideOperator_reset(S, tup) ==
    /\ j_calls < MaxCalls
    /\ UNCHANGED exceptJoin
    /\ IF ~lookup_int_ok(eid_key, tup)
       THEN \* lookup_int raises; the handler prints and returns
            UNCHANGED <<h_table, curr_epoch, j_out, j_calls, j_seen, j_prov, j_cnt,
                        j_mlog, j_last>>
       ELSE
         /\ j_calls' = j_calls + 1
         /\ LET reset_epoch == lookup_int(eid_key, tup)
                adv == join_reset_advance(curr_epoch[S], curr_epoch[Other(S)], reset_epoch, <<>>)
            IN
            /\ curr_epoch' = [curr_epoch EXCEPT ![S] = adv.epoch_ref]
            /\ j_out' = j_out \o adv.out
            /\ j_seen' = [j_seen EXCEPT ![S] = @ \cup {reset_epoch}]
            /\ j_last' = [op |-> "reset", side |-> S, epoch |-> reset_epoch,
                          before |-> curr_epoch, at |-> Len(j_out),
                          tables |-> h_table]
            /\ UNCHANGED <<h_table, j_prov, j_cnt, j_mlog>>

\* A reset in the middle of the stream.
JoinReset(S, tup) ==
    /\ JoinSideOperator_reset(S, tup)
    /\ j_end' = j_end

\* The reset that ends the stream of side S: no call on S follows it.
JoinEndOfStream(S, tup) ==
    /\ lookup_int_ok(eid_key, tup)
    /\ JoinSideOperator_reset(S, tup)
    /\ j_end' = [j_end EXCEPT ![S] = {lookup_int(eid_key, tup)}]

\* The extractor's result does not matter for a tuple whose eid_key lookup
\* fails: one representative is drawn for it.
JoinNextStep ==
    \E S \in Sides : \E tup \in EidTuples :
        \E x \in IF lookup_int_ok(eid_key, tup) THEN Extracted(S)
                  ELSE { CHOOSE x \in Extracted(S) : TRUE } :
            JoinNext(S, x.key_dict, x.vals_dict, tup)

JoinResetStep ==
    \E S \in Sides : \E tup \in EidTuples : JoinReset(S, tup)

JoinStep == JoinNextStep \/ JoinResetStep

\* Calls in epoch order: on each side no call carries an epoch below that of
\* an earlier call on the side, which is the side's counter.
InOrder(S, tup) == lookup_int_ok(eid_key, tup) => lookup_int(eid_key, tup) >= curr_epoch[S]

JoinInOrderNextStep ==
    \E S \in Sides : \E tup \in EidTuples :
        \E x \in IF lookup_int_ok(eid_key, tup) THEN Extracted(S)
                  ELSE { CHOOSE x \in Extracted(S) : TRUE } :
            InOrder(S, tup) /\ JoinNext(S, x.key_dict, x.vals_dict, tup)

JoinInOrderResetStep ==
    \E S \in Sides : \E tup \in EidTuples : InOrder(S, tup) /\ JoinReset(S, tup)

JoinInOrderStep == JoinInOrderNextStep \/ JoinInOrderResetStep

\* Streams that end: each side receives nexts and then its end-of-stream
\* reset, after which it is not called.
JoinOpenNextStep ==
    \E S \in Sides : \E tup \in EidTuples :
        \E x \in IF lookup_int_ok(eid_key, tup) THEN Extracted(S)
                  ELSE { CHOOSE x \in Extracted(S) : TRUE } :
            j_end[S] = {} /\ JoinNext(S, x.key_dict, x.vals_dict, tup)

JoinEndOfStreamStep ==
    \E S \in Sides : \E tup \in EidTuples : j_end[S] = {} /\ JoinEndOfStream(S, tup)

JoinEndStep == JoinOpenNextStep \/ JoinEndOfStreamStep

(***************************************************************************)
(* Epoch (builtins.py, EpochOperator).  Times and widths are in ticks of   *)
(* 0.1 s; times are not negative (they are packet timestamps).             *)
(***************************************************************************)
key_out == "eid"

Times == 0 .. MaxTime

\* epoch_width of the queries' Epoch operators: 1.0 s and 0.5 s.
Widths == {10, 5}

\* Tuples fed to Epoch: with a float time; with a float time and a field
\* already named key_out; with no time; with a time that is not a float.
EpochTuples ==
    { ("time" :> FloatResult(t)) : t \in Times }
    \cup { ("time" :> FloatResult(t) @@ key_out :> IntResult(7)) : t \in {0, MaxTime} }
    \cup { EmptyTuple, ("time" :> IntResult(1)) }

\* The condition of the loop "while current_time >= self._epoch_boundary".
epoch_crossed_strict(current_time, boundary) == current_time > boundary

epoch_crossed(current_time, boundary) == current_time >= boundary

\* reset_tup of the loop and of reset().
epoch_reset_tup_next(e) == key_out :> IntResult(e + 1)

epoch_reset_tup(e) == key_out :> IntResult(e)

\* The boundary the loop starts from: "if self._epoch_boundary == 0.0".
epoch_start_every_time(boundary, current_time, width) == current_time + width

epoch_start(boundary, current_time, width) ==
    IF boundary = 0 THEN current_time + width ELSE boundary

\* The loop: the resets it forwards, and the boundary and eid it leaves.
RECURSIVE epoch_advance(_, _, _, _, _)
epoch_advance(current_time, boundary, e, width, out) ==
    IF epoch_crossed(current_time, boundary)
    THEN epoch_advance(current_time, boundary + width, e + 1, width,
                       Append(out, ResetCall(epoch_reset_tup(e))))
    ELSE [boundary |-> boundary, eid |-> e, out |-> out]

\* The state reset() leaves.
epoch_after_reset_keeps_eid(boundary, e) == [boundary |-> 0, eid |-> e]

epoch_after_reset(boundary, e) == [boundary |-> 0, eid |-> 0]

\* The scenario: width 1.0, times 0.0, 0.5, 1.2, 2.5.
ScenarioWidth == 10
ScenarioTimes == <<0, 5, 12, 25>>

EpochInit ==
    /\ epoch_width \in Widths
    /\ epoch_boundary = 0
    /\ eid = 0
    /\ e_out = <<>>
    /\ e_last = [op |-> "none"]
    /\ e_t0 = -1
    /\ e_prev = -1
    /\ e_mono = TRUE
    /\ e_was_reset = FALSE
    /\ e_run = [n |-> 0, out |-> <<>>]

\* e_run after a call: it is kept while the calls received are the first
\* tuples of the scenario, and dropped (n = -1) with the first other call.
run_after(tup, out) ==
    IF /\ epoch_width = ScenarioWidth
       /\ e_run.n >= 0
       /\ e_run.n < Len(ScenarioTimes)
       /\ tup = ("time" :> FloatResult(ScenarioTimes[e_run.n + 1]))
    THEN [n |-> e_run.n + 1, out |-> e_run.out \o out]
    ELSE [n |-> -1, out |-> <<>>]

\* EpochOperator.next
EpochNext(tup) ==
    /\ UNCHANGED exceptEpoch
    /\ IF ~lookup_float_ok("time", tup)
       THEN \* float_of_op_result raises; the handler prints and returns
         /\ e_out' = <<>>
         /\ e_last' = [op |-> "next", ok |-> FALSE, tup |-> tup, eid_before |-> eid,
                       first |-> FALSE, raised |-> FALSE]
         /\ e_run' = run_after(tup, <<>>)
         /\ UNCHANGED <<epoch_width, epoch_boundary, eid, e_t0, e_prev, e_mono, e_was_reset>>
       ELSE
         LET current_time == lookup_float("time", tup)
             start == epoch_start(epoch_boundary, current_time, epoch_width)
             adv == epoch_advance(current_time, start, eid, epoch_width, <<>>)
             out_tup == dict_update(tup, key_out :> IntResult(adv.eid))
             out == Append(adv.out, NextCall(out_tup))
         IN
         /\ epoch_boundary' = adv.boundary
         /\ eid' = adv.eid
         /\ e_out' = out
         /\ e_last' = [op |-> "next", ok |-> TRUE, tup |-> tup, eid_before |-> eid,
                       first |-> (e_t0 = -1), raised |-> FALSE]
         /\ e_t0' = IF e_t0 = -1 THEN current_time ELSE e_t0
         /\ e_prev' = current_time
         /\ e_mono' = (e_mono /\ (e_t0 = -1 \/ current_time > e_prev))
         /\ e_run' = run_after(tup, out)
         /\ UNCHANGED <<epoch_width, e_was_reset>>

\* EpochOperator.reset; the tuple it receives is not read.
EpochReset(tup) ==
    /\ UNCHANGED exceptEpoch
    /\ LET after == epoch_after_reset(epoch_boundary, eid)
           out == <<ResetCall(epoch_reset_tup(eid))>>
       IN
       /\ epoch_boundary' = after.boundary
       /\ eid' = after.eid
       /\ e_out' = out
       /\ e_last' = [op |-> "reset", ok |-> TRUE, tup |-> tup, eid_before |-> eid,
                     first |-> FALSE, raised |-> FALSE]
       /\ e_t0' = -1
       /\ e_prev' = -1
       /\ e_mono' = TRUE
       /\ e_was_reset' = TRUE
       /\ e_run' = run_after(tup, out)
       /\ UNCHANGED epoch_width

EpochNextStep == \E tup \in EpochTuples : EpochNext(tup)

EpochResetStep == \E tup \in {EmptyTuple, (key_out :> IntResult(0))} : EpochReset(tup)

EpochStep == EpochNextStep \/ EpochResetStep

(***************************************************************************)
(* GroupBy (builtins.py, GroupByOperator) with its grouping and reduction  *)
(* functions.                                                              *)
(***************************************************************************)
out_key == "pkts"

\* filter_groups(["ipv4.src"]) and sum_ints("ipv4.len"), as in main.py.
incl_keys == {"ipv4.src"}
search_key == "ipv4.len"

\* Tuples fed to GroupBy: a source address, and a length that is an int, is
\* missing or is not an int.
GroupByTuples ==
    { ("ipv4.src" :> IntResult(a) @@ "ipv4.len" :> IntResult(n)) : a \in {1, 2}, n \in {10, 20} }
    \cup { ("ipv4.src" :> IntResult(a)) : a \in {1, 2} }
    \cup { ("ipv4.src" :> IntResult(1) @@ "ipv4.len" :> FloatResult(15)) }

\* Tuples passed to reset: empty, an epoch id, a field named like out_key, a
\* field named like the grouping key.
ResetTuples ==
    { EmptyTuple, ("eid" :> IntResult(0)), (out_key :> IntResult(9)),
      ("ipv4.src" :> IntResult(7)) }

\* filter_groups(incl_keys)
filter_groups(keys, tup) == [k \in DOMAIN tup \cap keys |-> tup[k]]

\* single_group
single_group(tup) == EmptyTuple

grouping_key(f, tup) ==
    IF f = "single_group" THEN single_group(tup) ELSE filter_groups(incl_keys, tup)

\* counter(): None gives 1, an int gives val + 1, anything else is returned.
counter_from_zero(val, tup) ==
    IF val = EmptyResult THEN IntResult(0)
    ELSE IF val.tag = "Int" THEN IntResult(val.v + 1)
    ELSE val

counter(val, tup) ==
    IF val = EmptyResult THEN IntResult(1)
    ELSE IF val.tag = "Int" THEN IntResult(val.v + 1)
    ELSE val

\* sum_ints(search_key): the current sum is returned when the field is
\* missing or not an int.
sum_ints(current_sum, tup) ==
    IF ~lookup_int_ok(search_key, tup) THEN current_sum
    ELSE IF current_sum = EmptyResult THEN IntResult(lookup_int(search_key, tup))
    ELSE IF current_sum.tag = "Int"
         THEN IntResult(current_sum.v + lookup_int(search_key, tup))
    ELSE current_sum

reduce(f, val, tup) == IF f = "counter" THEN counter(val, tup) ELSE sum_ints(val, tup)

\* self._hash_table.get(key, None)
table_get(tbl, key) ==
    IF \E i \in DOMAIN tbl : tbl[i].key = key
    THEN tbl[CHOOSE i \in DOMAIN tbl : tbl[i].key = key].val
    ELSE EmptyResult

\* self._hash_table[key] = val: a key already there keeps its place.
table_set(tbl, key, val) ==
    IF \E i \in DOMAIN tbl : tbl[i].key = key
    THEN [i \in DOMAIN tbl |-> IF tbl[i].key = key THEN [key |-> key, val |-> val] ELSE tbl[i]]
    ELSE Append(tbl, [key |-> key, val |-> val])

\* self._hash_table.clear()
table_clear_keeps(tbl) == tbl

table_clear(tbl) == <<>>

\* final_tup of reset: the reset tuple first, then the grouping key, then
\* the accumulated value under out_key.
groupby_final_tup_merged_in(tup, grouping_key_dict, accumulated_val) ==
    merge_tuples(<<tup, grouping_key_dict, out_key :> accumulated_val>>)

groupby_final_tup(tup, grouping_key_dict, accumulated_val) ==
    dict_update(merge_tuples(<<tup, grouping_key_dict>>), out_key :> accumulated_val)

GroupByInit ==
    /\ groupby_func \in {"single_group", "filter_groups"}
    /\ reduce_func \in {"counter", "sum_ints"}
    /\ hash_table = <<>>
    /\ g_out = <<>>
    /\ g_last = [op |-> "none"]
    /\ g_n = 0
    /\ g_keys = {}
    /\ g_fresh = <<>>
    /\ g_flushed = FALSE

\* GroupByOperator.next
GroupByOperator_next(tup) ==
    /\ g_n < MaxAccepts
    /\ LET grouping_key_dict == grouping_key(groupby_func, tup)
           current_val == table_get(hash_table, grouping_key_dict)
           new_val == reduce(reduce_func, current_val, tup)
       IN
       /\ hash_table' = table_set(hash_table, grouping_key_dict, new_val)
       /\ g_keys' = g_keys \cup {grouping_key_dict}
       /\ g_fresh' = table_set(g_fresh, grouping_key_dict,
                               reduce(reduce_func, table_get(g_fresh, grouping_key_dict), tup))
       /\ g_flushed' = g_flushed
    /\ g_out' = <<>>
    /\ g_last' = [op |-> "next", tup |-> tup, n |-> g_n, keys |-> g_keys,
                  table |-> hash_table]
    /\ g_n' = g_n + 1
    /\ UNCHANGED <<groupby_func, reduce_func>>

\* The calls reset makes on next_op: one next per entry of the table, in
\* insertion order, then the reset.
groupby_flush(tbl, tup) ==
    [i \in 1 .. Len(tbl) + 1 |->
        IF i <= Len(tbl)
        THEN NextCall(groupby_final_tup(tup, tbl[i].key, tbl[i].val))
        ELSE ResetCall(tup)]

\* GroupByOperator.reset
GroupByOperator_reset(tup) ==
    /\ g_out' = groupby_flush(hash_table, tup)
    /\ hash_table' = table_clear(hash_table)
    /\ g_last' = [op |-> "reset", tup |-> tup, n |-> g_n, keys |-> g_keys,
                  table |-> hash_table, fresh |-> g_fresh, flushed |-> g_flushed]
    /\ g_fresh' = <<>>
    /\ g_flushed' = (g_flushed \/ hash_table # <<>>)
    /\ g_n' = 0
    /\ g_keys' = {}
    /\ UNCHANGED <<groupby_func, reduce_func>>

\* A GroupBy that is called directly.
GroupByNext(tup) == GroupByOperator_next(tup) /\ UNCHANGED exceptGroupBy
GroupByReset(tup) == GroupByOperator_reset(tup) /\ UNCHANGED exceptGroupBy

GroupByNextStep == \E tup \in GroupByTuples : GroupByNext(tup)

GroupByResetStep == \E tup \in ResetTuples : GroupByReset(tup)

GroupByStep == GroupByNextStep \/ GroupByResetStep

(***************************************************************************)
(* Distinct (builtins.py, DistinctOperator).  Its grouping function is     *)
(* filter_groups(distinct_keys).  The keys are kept in a Python set, whose *)
(* iteration order is not fixed by the program: reset may forward the keys *)
(* in any order.                                                           *)
(***************************************************************************)
distinct_keys == {"ipv4.len"}

\* The orders in which a set can be iterated: its enumerations.
Orders(S) ==
    { seq \in [1 .. Cardinality(S) -> S] :
        \A i, j \in 1 .. Cardinality(S) : i /= j => seq[i] /= seq[j] }

\* final_tup of reset: the reset tuple first, then the key.
distinct_final_tup(tup, grouping_key_dict) == merge_tuples(<<tup, grouping_key_dict>>)

DistinctInit ==
    /\ hash_set = {}
    /\ d_out = <<>>
    /\ d_last = [op |-> "none"]

\* DistinctOperator.next
DistinctOperator_next(tup) ==
    /\ hash_set' = hash_set \cup {filter_groups(distinct_keys, tup)}
    /\ d_out' = <<>>
    /\ d_last' = [op |-> "next", tup |-> tup, set |-> hash_set]

\* DistinctOperator.reset
DistinctOperator_reset(tup) ==
    /\ \E order \in Orders(hash_set) :
          d_out' = [i \in 1 .. Len(order) + 1 |->
                       IF i <= Len(order)
                       THEN NextCall(distinct_final_tup(tup, order[i]))
                       ELSE ResetCall(tup)]
    /\ hash_set' = {}
    /\ d_last' = [op |-> "reset", tup |-> tup, set |-> hash_set]

(***************************************************************************)
(* Split (builtins.py, SplitOperator) over a GroupBy on its left and a     *)
(* Distinct on its right: each call is passed to the left operator and     *)
(* then to the right one.                                                  *)
(***************************************************************************)
\* SplitOperator.next
SplitNext(tup) ==
    /\ GroupByOperator_next(tup)
    /\ DistinctOperator_next(tup)
    /\ UNCHANGED exceptSplit

\* SplitOperator.reset
SplitReset(tup) ==
    /\ GroupByOperator_reset(tup)
    /\ DistinctOperator_reset(tup)
    /\ UNCHANGED exceptSplit

SplitNextStep == \E tup \in GroupByTuples : SplitNext(tup)

SplitResetStep == \E tup \in ResetTuples : SplitReset(tup)

SplitStep == SplitNextStep \/ SplitResetStep

(***************************************************************************)
(* distinct of the 2.5-Flash translation (phase-2 chat-code.py).  There an *)
(* OpResult is an object of a class (IntResult, FloatResult, ...) that     *)
(* defines neither __eq__ nor __hash__: two results are equal only when    *)
(* they are the same object.  A result object is [tag, v, id], id being    *)
(* its place in the caller's heap, so that equality of these records is    *)
(* identity of the objects.                                                *)
(***************************************************************************)
\* The result classes the caller instantiates, and the object at heap[id].
FlashResults == { IntResult(1), IntResult(2) }
obj(res, id) == [tag |-> res.tag, v |-> res.v, id |-> id]

\* The tuple the caller passes: one field holding the object id of the heap,
\* or no field (id 0).
flash_tuple(hp, id) == IF id = 0 THEN EmptyTuple ELSE ("ipv4.src" :> obj(hp[id], id))

\* The fields of a tuple of objects without the objects' identities.
plain(tup) == [k \in DOMAIN tup |-> [tag |-> tup[k].tag, v |-> tup[k].v]]

\* _make_hashable: tuple(sorted(tup_key.items())).  Field names are unique,
\* so the sort compares names only, and two such tuples are equal iff they
\* pair the same names with the same objects: the mapping itself.
flash_make_hashable(tup_key) == tup_key

\* merged_tup = {**key_dict, **reset_tup}
flash_merged_tup(key_dict, reset_tup) == dict_update(key_dict, reset_tup)

FlashInit ==
    /\ heap = <<>>
    /\ h_tbl = {}
    /\ f_out = <<>>
    /\ f_last = [op |-> "none"]
    /\ f_vals = {}

\* distinct.next_func; grouping_func is filter_groups(["ipv4.src"]).
distinct_next_func(tup) ==
    LET grouping_key_dict == filter_groups({"ipv4.src"}, tup)
        grouping_key_hashable == flash_make_hashable(grouping_key_dict)
    IN
    /\ h_tbl' = h_tbl \cup {grouping_key_hashable}
    /\ f_out' = <<>>
    /\ f_last' = [op |-> "next", key |-> grouping_key_dict, set |-> h_tbl, vals |-> f_vals]
    /\ f_vals' = f_vals \cup {plain(grouping_key_dict)}

\* The caller builds a new result object and passes a tuple holding it.
FlashNextNew(res) ==
    /\ Len(heap) < MaxObjs
    /\ heap' = Append(heap, res)
    /\ distinct_next_func(flash_tuple(heap', Len(heap) + 1))
    /\ UNCHANGED exceptFlash

\* The caller passes a tuple holding an object it passed before, or a tuple
\* without the field.
FlashNextAgain(id) ==
    /\ heap' = heap
    /\ distinct_next_func(flash_tuple(heap, id))
    /\ UNCHANGED exceptFlash

\* distinct.reset_func
FlashReset(reset_tup) ==
    /\ \E order \in Orders(h_tbl) :
          f_out' = [i \in 1 .. Len(order) + 1 |->
                       IF i <= Len(order)
                       THEN NextCall(flash_merged_tup(order[i], reset_tup))
                       ELSE ResetCall(reset_tup)]
    /\ h_tbl' = {}
    /\ f_last' = [op |-> "reset", key |-> reset_tup, set |-> h_tbl, vals |-> f_vals]
    /\ f_vals' = {}
    /\ heap' = heap
    /\ UNCHANGED exceptFlash

FlashNextNewStep == \E res \in FlashResults : FlashNextNew(res)

FlashNextAgainStep == \E id \in 0 .. Len(heap) : FlashNextAgain(id)

FlashResetStep == \E reset_tup \in {EmptyTuple, ("eid" :> IntResult(0))} : FlashReset(reset_tup)

FlashStep == FlashNextNewStep \/ FlashNextAgainStep \/ FlashResetStep

(***************************************************************************)
(* sum_ints of the 3.7-sonnet translation (the o4-mini translation has the *)
(* same cases in the same order).  A call returns a result or raises       *)
(* ValueError: [ok, val].                                                  *)
(***************************************************************************)
Returned(val) == [ok |-> TRUE, val |-> val]
Raised == [ok |-> FALSE, val |-> EmptyResult]

\* A sum that starts from the first value it finds.
sonnet_sum_ints_from_first(key, acc, tup) ==
    IF ~lookup_int_ok(key, tup) THEN Raised
    ELSE IF acc = EmptyResult THEN Returned(IntResult(lookup_int(key, tup)))
    ELSE IF acc.tag = "Int" THEN Returned(IntResult(lookup_int(key, tup) + acc.v))
    ELSE Returned(acc)

\* sum_ints(search_key, init_val, tup): find_opt is consulted only when the
\* accumulator is an Int.
sonnet_sum_ints(key, acc, tup) ==
    IF acc = EmptyResult THEN Returned(IntResult(0))
    ELSE IF acc.tag = "Int"
         THEN IF lookup_int_ok(key, tup)
              THEN Returned(IntResult(lookup_int(key, tup) + acc.v))
              ELSE Raised
    ELSE Returned(acc)

\* The accumulators a fold starts from: Empty, an Int, a value of another kind.
SumInit ==
    /\ init_val \in {EmptyResult, IntResult(0), IntResult(7), FloatResult(15)}
    /\ s_last = [op |-> "none"]

SumIdle == SumInit /\ init_val = EmptyResult

\* One call of sum_ints; the caller keeps the result as its accumulator, and
\* keeps the old accumulator when the call raises.
SumApply(tup) ==
    /\ init_val.v <= MaxSum
    /\ LET res == sonnet_sum_ints(search_key, init_val, tup)
       IN /\ init_val' = IF res.ok THEN res.val ELSE init_val
          /\ s_last' = [op |-> "sum_ints", acc |-> init_val, tup |-> tup, res |-> res]
    /\ UNCHANGED exceptSum

SumStep == \E tup \in GroupByTuples : SumApply(tup)

(***************************************************************************)
(* epoch_op of the o4-mini translation (phase-2 chat-code.py).  A tuple is *)
(* a Python dict, passed by reference: an assignment to tup[key] inside    *)
(* the operator changes the caller's dict.  Its width is 1.0.              *)
(***************************************************************************)
\* tup[key] = value on the dict the caller passed: the dict afterwards.
dict_setitem(tup, key, value) == dict_update(tup, key :> value)

O4EpochInit ==
    /\ o4_boundary = 0
    /\ o4_eid = 0
    /\ o4_tup = EmptyTuple
    /\ o4_out = <<>>
    /\ o4_last = [op |-> "none"]

\* epoch_op.nxt
O4EpochNext(tup) ==
    /\ IF ~lookup_float_ok("time", tup)
       THEN \* float_of_op_result(tup["time"]) raises to the caller
         /\ o4_tup' = tup
         /\ o4_out' = <<>>
         /\ o4_last' = [op |-> "next", tup |-> tup, raised |-> TRUE]
         /\ UNCHANGED <<o4_boundary, o4_eid>>
       ELSE
         LET t == lookup_float("time", tup)
             start == IF o4_boundary = 0 THEN t + ScenarioWidth ELSE o4_boundary
             adv == epoch_advance(t, start, o4_eid, ScenarioWidth, <<>>)
             after == dict_setitem(tup, key_out, IntResult(adv.eid))
         IN
         /\ o4_boundary' = adv.boundary
         /\ o4_eid' = adv.eid
         /\ o4_tup' = after
         /\ o4_out' = Append(adv.out, NextCall(after))
         /\ o4_last' = [op |-> "next", tup |-> tup, raised |-> FALSE]
    /\ UNCHANGED exceptO4Epoch

\* epoch_op.rst; its argument is not used.
O4EpochReset(tup) ==
    /\ o4_out' = <<ResetCall(key_out :> IntResult(o4_eid))>>
    /\ o4_boundary' = 0
    /\ o4_eid' = 0
    /\ o4_tup' = tup
    /\ o4_last' = [op |-> "reset", tup |-> tup, raised |-> FALSE]
    /\ UNCHANGED exceptO4Epoch

O4EpochNextStep == \E tup \in EpochTuples : O4EpochNext(tup)

O4EpochResetStep == \E tup \in {EmptyTuple, (key_out :> IntResult(0))} : O4EpochReset(tup)

O4EpochStep == O4EpochNextStep \/ O4EpochResetStep

(***************************************************************************)
(* groupby of the 3.7-sonnet translation (phase-2 chat-code.py).  There a  *)
(* Tuple wraps a Python dict, which keeps its fields in insertion order: a *)
(* Tuple is a sequence of [k, v] pairs with distinct names.  The table is  *)
(* keyed by string_of_tuple(grouping_key).                                 *)
(***************************************************************************)
\* The mapping a Tuple stands for, whatever the order of its fields.
as_map(t) ==
    [k \in { t[i].k : i \in DOMAIN t } |-> (t[CHOOSE i \in DOMAIN t : t[i].k = k]).v]

\* string_of_op_result: an Int prints as its digits, a Float with a decimal
\* point, so the two kinds of text differ.
string_of_op_result(val) ==
    IF val.tag = "Int" THEN <<"digits", val.v>>
    ELSE IF val.tag = "Float" THEN <<"decimal", val.v>>
    ELSE <<"Empty">>

\* string_of_tuple: the text '"key" => value, ' per field, in the order of
\* input_tuple.data.items().
string_of_tuple(input_tuple) ==
    [i \in DOMAIN input_tuple |->
        <<input_tuple[i].k, " => ", string_of_op_result(input_tuple[i].v), ", ">>]

\* Tuple.filter with the predicate of filter_groups(incl_keys, tup).
sonnet_filter_groups(keys, t) == SelectSeq(t, LAMBDA p : p.k \in keys)

\* Tuple.add on a new Tuple object: an existing field keeps its place.
Tuple_add(t, key, value) ==
    IF \E i \in DOMAIN t : t[i].k = key
    THEN [i \in DOMAIN t |-> IF t[i].k = key THEN [k |-> key, v |-> value] ELSE t[i]]
    ELSE Append(t, [k |-> key, v |-> value])

\* self.union(use_left, other): the fields of self, then those of other
\* that self has not.
Tuple_union_use_left(self, other) ==
    self \o SelectSeq(other, LAMBDA p : \A i \in DOMAIN self : self[i].k /= p.k)

\* counter of the 3.7-sonnet translation.
sonnet_counter(val) ==
    IF val = EmptyResult THEN IntResult(1)
    ELSE IF val.tag = "Int" THEN IntResult(val.v + 1)
    ELSE val

\* The tuples fed: source and destination address, inserted in either order.
SonnetTuples ==
    { << [k |-> "ipv4.src", v |-> IntResult(a)], [k |-> "ipv4.dst", v |-> IntResult(b)] >>
        : a \in {1, 2}, b \in {1, 2} }
    \cup { << [k |-> "ipv4.dst", v |-> IntResult(b)], [k |-> "ipv4.src", v |-> IntResult(a)] >>
        : a \in {1, 2}, b \in {1, 2} }
    \cup { << [k |-> "ipv4.src", v |-> IntResult(1)] >> }

sonnet_group_keys == {"ipv4.src", "ipv4.dst"}

SonnetGroupByInit ==
    /\ sn_h_tbl = <<>>
    /\ sn_out = <<>>
    /\ sn_last = [op |-> "none"]
    /\ sn_n = 0

\* groupby.next_func
SonnetGroupByNext(tup) ==
    /\ sn_n < MaxGroupCalls
    /\ LET group_key == sonnet_filter_groups(sonnet_group_keys, tup)
           grouping_key_str == string_of_tuple(group_key)
       IN
       /\ sn_h_tbl' =
            IF \E i \in DOMAIN sn_h_tbl : sn_h_tbl[i].str = grouping_key_str
            THEN [i \in DOMAIN sn_h_tbl |->
                    IF sn_h_tbl[i].str = grouping_key_str
                    THEN [str |-> grouping_key_str, key |-> group_key,
                          val |-> sonnet_counter(sn_h_tbl[i].val)]
                    ELSE sn_h_tbl[i]]
            ELSE Append(sn_h_tbl, [str |-> grouping_key_str, key |-> group_key,
                                   val |-> sonnet_counter(EmptyResult)])
       /\ sn_last' = [op |-> "next", tup |-> tup, key |-> group_key, table |-> sn_h_tbl]
    /\ sn_out' = <<>>
    /\ sn_n' = sn_n + 1
    /\ UNCHANGED exceptSonnetGroupBy

\* groupby.reset_func
SonnetGroupByReset(tup) ==
    /\ sn_out' = [i \in 1 .. Len(sn_h_tbl) + 1 |->
                    IF i <= Len(sn_h_tbl)
                    THEN NextCall(Tuple_add(Tuple_union_use_left(tup, sn_h_tbl[i].key),
                                            out_key, sn_h_tbl[i].val))
                    ELSE ResetCall(tup)]
    /\ sn_h_tbl' = <<>>
    /\ sn_last' = [op |-> "reset", tup |-> tup, key |-> <<>>, table |-> sn_h_tbl]
    /\ sn_n' = 0
    /\ UNCHANGED exceptSonnetGroupBy

SonnetGroupByNextStep == \E tup \in SonnetTuples : SonnetGroupByNext(tup)

SonnetGroupByResetStep ==
    \E tup \in { <<>>, << [k |-> "eid", v |-> IntResult(0)] >> } : SonnetGroupByReset(tup)

SonnetGroupByStep == SonnetGroupByNextStep \/ SonnetGroupByResetStep

(***************************************************************************)
(* join_op of the o4-mini translation (phase-2 chat-code.py).  The epoch   *)
(* counters epoch1 and epoch2 are ints passed to make_side by value: each  *)
(* side gets its own cell my_epoch_ref, which nxt rebinds (nonlocal), and  *)
(* its own cell other_epoch_ref, which nothing assigns.  The table keys    *)
(* are tuples holding IntResult objects, instances of a dataclass with eq  *)
(* and without frozen, which cannot be hashed.                             *)
(***************************************************************************)
O4JoinInit ==
    /\ my_epoch_ref = [S \in Sides |-> 0]
    /\ other_epoch_ref = [S \in Sides |-> 0]
    /\ o4j_tbl = [S \in Sides |-> EmptyTuple]
    /\ o4j_out = <<>>
    /\ o4j_last = [op |-> "none"]

\* make_side.nxt on side S
O4JoinNext(S, tup) ==
    /\ IF ~lookup_int_ok(eid_key, tup)
       THEN \* tup[eid_key] or int_of_op_result raises
         /\ o4j_last' = [op |-> "next", side |-> S, tup |-> tup, raised |-> "lookup"]
         /\ UNCHANGED <<my_epoch_ref, o4j_out>>
       ELSE
         LET e == lookup_int(eid_key, tup)
             adv == join_advance(my_epoch_ref[S], other_epoch_ref[S], e, <<>>)
         IN
         /\ my_epoch_ref' = [my_epoch_ref EXCEPT ![S] = adv.epoch_ref]
         /\ o4j_out' = o4j_out \o adv.out
         \* key_full_items in other_tbl hashes an IntResult: TypeError
         /\ o4j_last' = [op |-> "next", side |-> S, tup |-> tup, raised |-> "unhashable"]
    /\ UNCHANGED <<other_epoch_ref, o4j_tbl>>
    /\ UNCHANGED exceptO4Join

\* make_side.rst on side S: its parameter is named _, and its first
\* statement reads the name tup, which no enclosing scope binds: NameError.
O4JoinReset(S, tup) ==
    /\ o4j_last' = [op |-> "reset", side |-> S, tup |-> tup, raised |-> "name"]
    /\ UNCHANGED <<my_epoch_ref, other_epoch_ref, o4j_tbl, o4j_out>>
    /\ UNCHANGED exceptO4Join

O4JoinNextStep == \E S \in Sides : \E tup \in EidTuples : O4JoinNext(S, tup)

O4JoinResetStep == \E S \in Sides : \E tup \in EidTuples : O4JoinReset(S, tup)

O4JoinStep == O4JoinNextStep \/ O4JoinResetStep

(***************************************************************************)
(* Query.join of py-files/builtins_translated.py (the paradigm-focus file  *)
(* has the same text).  curr_epoch and other_epoch are int parameters of   *)
(* handle_join_side: next reads them, reset rebinds curr_epoch (nonlocal). *)
(* The loop of next is modelled one iteration per step, since its body     *)
(* assigns nothing.                                                        *)
(***************************************************************************)
Idle == [at |-> "idle"]

PyJoinInit ==
    /\ curr_epoch_cell = [S \in Sides |-> 0]
    /\ other_epoch_cell = [S \in Sides |-> 0]
    /\ curr_h_tbl = [S \in Sides |-> <<>>]
    /\ pj_pc = Idle
    /\ pj_out = <<>>
    /\ pj_last = [op |-> "none"]
    /\ pj_calls = 0

\* next, up to the loop: the extractor and headers.get_mapped_int(eid_key).
PyJoinNextEnter(S, x, tup) ==
    /\ pj_pc = Idle
    /\ pj_calls < MaxCalls
    /\ pj_calls' = pj_calls + 1
    /\ IF ~lookup_int_ok(eid_key, tup)
       THEN /\ pj_last' = [op |-> "next", side |-> S, ended |-> "raised"]
            /\ pj_pc' = pj_pc
       ELSE /\ pj_pc' = [at |-> "while", side |-> S, val |-> x.vals_dict,
                         curr_e |-> lookup_int(eid_key, tup),
                         entered_at |-> curr_epoch_cell[S], iterations |-> 0]
            /\ pj_last' = pj_last
    /\ UNCHANGED <<curr_epoch_cell, other_epoch_cell, curr_h_tbl, pj_out>>
    /\ UNCHANGED exceptPyJoin

\* One iteration of "while curr_e > curr_epoch": the body forwards a call
\* (of the two-member set literal, written here as a pair) when
\* other_epoch > curr_epoch, and assigns nothing.  The count of
\* iterations stops at MaxIter.
PyJoinNextIterate ==
    /\ pj_pc.at = "while"
    /\ pj_pc.curr_e > curr_epoch_cell[pj_pc.side]
    /\ pj_pc.iterations < MaxIter
    /\ pj_out' = IF other_epoch_cell[pj_pc.side] > curr_epoch_cell[pj_pc.side]
                 THEN Append(pj_out, NextCall(<<eid_key, IntResult(curr_epoch_cell[pj_pc.side] + 1)>>))
                 ELSE pj_out
    /\ pj_pc' = [pj_pc EXCEPT !.iterations = @ + 1]
    /\ UNCHANGED <<curr_epoch_cell, other_epoch_cell, curr_h_tbl, pj_last, pj_calls>>
    /\ UNCHANGED exceptPyJoin

\* The loop condition is false: the rest of next.  new_packet is built from
\* the result of dict.__setitem__, which is None, so it is a new, empty
\* PacketHeaders; PacketHeaders defines no __eq__, so the new object is in
\* no table, and val is stored in the table of this side.
PyJoinNextLeave ==
    /\ pj_pc.at = "while"
    /\ ~(pj_pc.curr_e > curr_epoch_cell[pj_pc.side])
    /\ curr_h_tbl' = [curr_h_tbl EXCEPT ![pj_pc.side] = Append(@, pj_pc.val)]
    /\ pj_last' = [op |-> "next", side |-> pj_pc.side, ended |-> "returned",
                   curr_e |-> pj_pc.curr_e, entered_at |-> pj_pc.entered_at,
                   iterations |-> pj_pc.iterations]
    /\ pj_pc' = Idle
    /\ UNCHANGED <<curr_epoch_cell, other_epoch_cell, pj_out, pj_calls>>
    /\ UNCHANGED exceptPyJoin

\* reset: its loop increments curr_epoch.
PyJoinReset(S, tup) ==
    /\ pj_pc = Idle
    /\ pj_calls < MaxCalls
    /\ pj_calls' = pj_calls + 1
    /\ IF ~lookup_int_ok(eid_key, tup)
       THEN /\ pj_last' = [op |-> "reset", side |-> S, ended |-> "raised"]
            /\ UNCHANGED <<curr_epoch_cell, pj_out>>
       ELSE LET adv == join_advance(curr_epoch_cell[S], other_epoch_cell[S],
                                    lookup_int(eid_key, tup), <<>>)
            IN /\ curr_epoch_cell' = [curr_epoch_cell EXCEPT ![S] = adv.epoch_ref]
               /\ pj_out' = pj_out \o adv.out
               /\ pj_last' = [op |-> "reset", side |-> S, ended |-> "returned"]
    /\ UNCHANGED <<other_epoch_cell, curr_h_tbl, pj_pc>>
    /\ UNCHANGED exceptPyJoin

PyJoinNextEnterStep ==
    \E S \in Sides : \E tup \in EidTuples : \E x \in Extracted(S) : PyJoinNextEnter(S, x, tup)

PyJoinResetStep == \E S \in Sides : \E tup \in EidTuples : PyJoinReset(S, tup)

PyJoinStep ==
    PyJoinNextEnterStep \/ PyJoinNextIterate \/ PyJoinNextLeave \/ PyJoinResetStep

(***************************************************************************)
(* The merged tuples of GroupByOperator.reset, DistinctOperator.reset and  *)
(* _JoinSideOperator.next, built from tuples that share field names.       *)
(***************************************************************************)
MergeFields == {eid_key, out_key}
MergeValues == {IntResult(0), IntResult(1)}
MergeTuples == UNION { [S -> MergeValues] : S \in SUBSET MergeFields }
MergeSites == {"groupby", "distinct", "join"}

\* Some field name is in two of the listed tuples.
SharesField(listed) ==
    \E i, j \in 1 .. Len(listed) :
        i < j /\ DOMAIN listed[i] \cap DOMAIN listed[j] # {}

MergeInit ==
    /\ m_site = "none"
    /\ m_listed = <<>>
    /\ m_merged = EmptyTuple
    /\ m_conflicts = {}
    /\ m_val = EmptyResult

\* The operators that have merged tuples sharing a field name.
conflicts_after(site, listed) ==
    IF SharesField(listed) THEN m_conflicts \cup {site} ELSE m_conflicts

\* GroupByOperator.reset, one group: base_merged, then final_tup[out_key].
MergeGroupBy(tup, grouping_key_dict, accumulated_val) ==
    /\ m_site' = "groupby"
    /\ m_listed' = <<tup, grouping_key_dict>>
    /\ m_merged' = groupby_final_tup(tup, grouping_key_dict, accumulated_val)
    /\ m_conflicts' = conflicts_after("groupby", m_listed')
    /\ m_val' = accumulated_val
    /\ UNCHANGED exceptMerge

\* DistinctOperator.reset, one key.
MergeDistinct(tup, grouping_key_dict) ==
    /\ m_site' = "distinct"
    /\ m_listed' = <<tup, grouping_key_dict>>
    /\ m_merged' = distinct_final_tup(tup, grouping_key_dict)
    /\ m_conflicts' = conflicts_after("distinct", m_listed')
    /\ m_val' = EmptyResult
    /\ UNCHANGED exceptMerge

\* _JoinSideOperator.next, a match; join_key_dict has the epoch under eid_key.
MergeJoin(join_key_dict, vals_dict, other_vals_dict) ==
    /\ m_site' = "join"
    /\ m_listed' = <<join_key_dict, vals_dict, other_vals_dict>>
    /\ m_merged' = join_merge(join_key_dict, vals_dict, other_vals_dict)
    /\ m_conflicts' = conflicts_after("join", m_listed')
    /\ m_val' = EmptyResult
    /\ UNCHANGED exceptMerge

MergeGroupByStep ==
    \E tup \in MergeTuples : \E key \in MergeTuples : \E val \in MergeValues :
        MergeGroupBy(tup, key, val)

MergeDistinctStep ==
    \E tup \in MergeTuples : \E key \in MergeTuples : MergeDistinct(tup, key)

MergeJoinStep ==
    \E key \in {t \in MergeTuples : eid_key \in DOMAIN t} :
        \E vals \in MergeTuples : \E other \in MergeTuples : MergeJoin(key, vals, other)

MergeStep == MergeGroupByStep \/ MergeDistinctStep \/ MergeJoinStep

(***************************************************************************)
(* FilterOperator, MapOperator and SplitOperator (builtins.py).  They keep *)
(* no state of their own; what is recorded is what they call downstream.   *)
(***************************************************************************)
\* The threshold of the queries of main.py.
threshold == 40

\* Tuples given to next: the filtered field below and at the threshold,
\* missing, not an int, and beside another field.
PipeTuples ==
    { ("cons" :> IntResult(threshold - 1)), ("cons" :> IntResult(threshold)),
      EmptyTuple, ("cons" :> FloatResult(threshold)),
      ("cons" :> IntResult(threshold) @@ "host" :> IntResult(1)) }

\* The predicates given to FilterOperator: key_geq_int("cons", threshold),
\* which answers False when the lookup fails, and a lambda over lookup_int,
\* as in main.py, which raises when the lookup fails.
Predicates == {"key_geq_int", "lambda"}

predicate(f, tup) ==
    IF ~lookup_int_ok("cons", tup)
    THEN (IF f = "key_geq_int" THEN Returned(FALSE) ELSE Raised)
    ELSE Returned(lookup_int("cons", tup) >= threshold)

\* The functions given to MapOperator: filter_groups(["cons"]), and a lambda
\* that adds a field computed with lookup_int, as in main.py, which raises
\* when a lookup fails.
Funcs == {"filter_groups", "lambda"}

func(f, tup) ==
    IF f = "filter_groups" THEN Returned(filter_groups({"cons"}, tup))
    ELSE IF lookup_int_ok("cons", tup) /\ lookup_int_ok("host", tup)
         THEN Returned(dict_update(tup, "diff" :> IntResult(lookup_int("cons", tup)
                                                            - lookup_int("host", tup))))
         ELSE Raised

\* "if self._predicate(tup)"
passes_unless_false(result) == ~(result.ok /\ result.val = FALSE)

passes(result) == result.ok /\ result.val = TRUE

\* self._next_op.reset(tup)
forward_reset_dropped(tup) == <<>>

forward_reset(tup) == <<ResetCall(tup)>>

\* A call made by Split: on the left or on the right operator.
SplitCall(to, call) == [to |-> to, op |-> call.op, tup |-> call.tup]

\* The two calls of SplitOperator.next and SplitOperator.reset.
split_calls_right_first(call) == <<SplitCall("right", call), SplitCall("left", call)>>

split_calls(call) == <<SplitCall("left", call), SplitCall("right", call)>>

PipeInit ==
    /\ pipe_out = <<>>
    /\ pipe_last = [operator |-> "none"]
    /\ pipe_calls = 0

PipeCalled ==
    /\ pipe_calls < MaxCalls
    /\ pipe_calls' = pipe_calls + 1
    /\ UNCHANGED exceptPipe

\* FilterOperator.next: an exception of the predicate is printed.
FilterNext(f, tup) ==
    /\ PipeCalled
    /\ pipe_out' = IF passes(predicate(f, tup)) THEN <<NextCall(tup)>> ELSE <<>>
    /\ pipe_last' = [operator |-> "filter", op |-> "next", tup |-> tup,
                     result |-> predicate(f, tup)]

\* FilterOperator.reset
FilterReset(f, tup) ==
    /\ PipeCalled
    /\ pipe_out' = forward_reset(tup)
    /\ pipe_last' = [operator |-> "filter", op |-> "reset", tup |-> tup, given |-> f]

\* MapOperator.next: an exception of the function is printed.
MapNext(f, tup) ==
    /\ PipeCalled
    /\ pipe_out' = IF func(f, tup).ok THEN <<NextCall(func(f, tup).val)>> ELSE <<>>
    /\ pipe_last' = [operator |-> "map", op |-> "next", tup |-> tup,
                     result |-> func(f, tup)]

\* MapOperator.reset
MapReset(f, tup) ==
    /\ PipeCalled
    /\ pipe_out' = forward_reset(tup)
    /\ pipe_last' = [operator |-> "map", op |-> "reset", tup |-> tup, given |-> f]

\* SplitOperator.next: the operators in failing raise when called; Split
\* prints the exception of the left one and goes on to the right one.
SplitOperator_next(failing, tup) ==
    /\ PipeCalled
    /\ pipe_out' = split_calls(NextCall(tup))
    /\ pipe_last' = [operator |-> "split", op |-> "next", tup |-> tup,
                     failing |-> failing]

\* SplitOperator.reset
SplitOperator_reset(failing, tup) ==
    /\ PipeCalled
    /\ pipe_out' = split_calls(ResetCall(tup))
    /\ pipe_last' = [operator |-> "split", op |-> "reset", tup |-> tup,
                     failing |-> failing]

FilterNextStep == \E f \in Predicates : \E tup \in PipeTuples : FilterNext(f, tup)
FilterResetStep == \E f \in Predicates : \E tup \in ResetTuples : FilterReset(f, tup)
MapNextStep == \E f \in Funcs : \E tup \in PipeTuples : MapNext(f, tup)
MapResetStep == \E f \in Funcs : \E tup \in ResetTuples : MapReset(f, tup)
SplitOperatorNextStep ==
    \E failing \in SUBSET Sides : \E tup \in PipeTuples : SplitOperator_next(failing, tup)
SplitOperatorResetStep ==
    \E failing \in SUBSET Sides : \E tup \in ResetTuples : SplitOperator_reset(failing, tup)

PipeStep ==
    \/ FilterNextStep \/ FilterResetStep
    \/ MapNextStep \/ MapResetStep
    \/ SplitOperatorNextStep \/ SplitOperatorResetStep

(***************************************************************************)
(* int_of_op_result and float_of_op_result (utils.py).  A result is an     *)
(* int, a float, an IPv4Address, bytes (a MAC address) or None; a float is *)
(* counted in tenths, as the times of Epoch are.                           *)
(***************************************************************************)
IPv4Result(a) == [tag |-> "IPv4", v |-> a]
MACResult(m) == [tag |-> "MAC", v |-> m]

Payloads == 0 .. MaxPayload

OpResults ==
    { IntResult(n) : n \in Payloads } \cup { FloatResult(x) : x \in Payloads }
    \cup { IPv4Result(a) : a \in Payloads } \cup { MACResult(m) : m \in Payloads }
    \cup { EmptyResult }

\* An extraction that accepts a float with no fractional part as an int.
int_of_op_result_coercing(input_val) ==
    IF input_val.tag = "Int" THEN Returned(input_val.v)
    ELSE IF input_val.tag = "Float" /\ input_val.v % 10 = 0 THEN Returned(input_val.v \div 10)
    ELSE Raised

\* isinstance(input_val, int), else TypeError
int_of_op_result(input_val) ==
    IF input_val.tag = "Int" THEN Returned(input_val.v) ELSE Raised

\* isinstance(input_val, float), else TypeError
float_of_op_result(input_val) ==
    IF input_val.tag = "Float" THEN Returned(input_val.v) ELSE Raised

ConvInit == conv_last = [fn |-> "none"]

IntOfOpResult(input_val) ==
    /\ conv_last' = [fn |-> "int_of_op_result", arg |-> input_val,
                     result |-> int_of_op_result(input_val)]
    /\ UNCHANGED exceptConv

FloatOfOpResult(input_val) ==
    /\ conv_last' = [fn |-> "float_of_op_result", arg |-> input_val,
                     result |-> float_of_op_result(input_val)]
    /\ UNCHANGED exceptConv

IntOfOpResultStep == \E input_val \in OpResults : IntOfOpResult(input_val)
FloatOfOpResultStep == \E input_val \in OpResults : FloatOfOpResult(input_val)

ConvStep == IntOfOpResultStep \/ FloatOfOpResultStep

(***************************************************************************)
(* groupby(filter_groups(["ipv4.src"]), sum_ints("ipv4.len"), out_key) of  *)
(* the 3.7-sonnet translation.  The grouping key has one field, so the     *)
(* order of its fields plays no part in string_of_tuple.  An exception of  *)
(* the reduction leaves next_func before h_tbl is assigned.                *)
(***************************************************************************)
SumGroupInit ==
    /\ sg_tbl = <<>>
    /\ sg_fed = <<>>
    /\ sg_out = <<>>
    /\ sg_last = [op |-> "none"]

\* What a group has been fed after one more tuple.
fed_after(fed, tup) ==
    LET int == lookup_int_ok(search_key, tup)
        n == IF int THEN lookup_int(search_key, tup) ELSE 0
    IN [first |-> IF fed.count = 0 THEN n ELSE fed.first,
        total |-> fed.total + n,
        count |-> fed.count + 1,
        ints |-> fed.ints /\ int]

NothingFed == [first |-> 0, total |-> 0, count |-> 0, ints |-> TRUE]

\* groupby.next_func
SumGroupNext(tup) ==
    /\ \A i \in DOMAIN sg_fed : sg_fed[i].count < MaxGroupCalls
    /\ LET group_key == filter_groups(incl_keys, tup)
           known == \E i \in DOMAIN sg_tbl : sg_tbl[i].key = group_key
           at == IF known THEN CHOOSE i \in DOMAIN sg_tbl : sg_tbl[i].key = group_key
                 ELSE Len(sg_tbl) + 1
           res == sonnet_sum_ints(search_key,
                                  IF known THEN sg_tbl[at].val ELSE EmptyResult, tup)
       IN
       IF ~res.ok
       THEN /\ UNCHANGED <<sg_tbl, sg_fed>>
            /\ sg_last' = [op |-> "next", raised |-> TRUE]
       ELSE /\ sg_tbl' = [i \in DOMAIN sg_tbl \cup {at} |->
                            IF i = at THEN [key |-> group_key, val |-> res.val]
                            ELSE sg_tbl[i]]
            /\ sg_fed' = [i \in DOMAIN sg_tbl \cup {at} |->
                            IF i = at
                            THEN fed_after(IF known THEN sg_fed[at] ELSE NothingFed, tup)
                            ELSE sg_fed[i]]
            /\ sg_last' = [op |-> "next", raised |-> FALSE]
    /\ sg_out' = <<>>
    /\ UNCHANGED exceptSumGroup

\* groupby.reset_func
SumGroupReset(tup) ==
    /\ sg_out' = [i \in 1 .. Len(sg_tbl) + 1 |->
                    IF i <= Len(sg_tbl)
                    THEN NextCall(dict_update(merge_tuples(<<tup, sg_tbl[i].key>>),
                                              out_key :> sg_tbl[i].val))
                    ELSE ResetCall(tup)]
    /\ sg_last' = [op |-> "reset", raised |-> FALSE, fed |-> sg_fed]
    /\ sg_tbl' = <<>>
    /\ sg_fed' = <<>>
    /\ UNCHANGED exceptSumGroup

SumGroupNextStep == \E tup \in GroupByTuples : SumGroupNext(tup)

SumGroupResetStep ==
    \E tup \in { EmptyTuple, (eid_key :> IntResult(0)) } : SumGroupReset(tup)

SumGroupStep == SumGroupNextStep \/ SumGroupResetStep

(***************************************************************************)
(* count_pkts (main.py): an EpochOperator of width 1.0 whose next_op is a  *)
(* GroupByOperator(single_group, counter(), "pkts").  A run is any number  *)
(* of tuples and then the external reset that ends the stream.             *)
(***************************************************************************)
CountPktsInit ==
    /\ cp_boundary = 0
    /\ cp_eid = 0
    /\ cp_table = <<>>
    /\ cp_out = <<>>
    /\ cp_tagged = <<>>
    /\ cp_n = 0
    /\ cp_done = FALSE

\* The GroupBy's table and the calls it makes on next_op, after the calls
\* Epoch makes on it.
RECURSIVE groupby_run(_, _, _)
groupby_run(calls, tbl, out) ==
    IF calls = <<>> THEN [tbl |-> tbl, out |-> out]
    ELSE LET call == Head(calls)
             grouping_key_dict == single_group(call.tup)
         IN  IF call.op = "next"
             THEN groupby_run(Tail(calls),
                              table_set(tbl, grouping_key_dict,
                                        counter(table_get(tbl, grouping_key_dict), call.tup)),
                              out)
             ELSE groupby_run(Tail(calls), table_clear(tbl),
                              out \o groupby_flush(tbl, call.tup))

\* cp_tagged after one more tuple is passed on with eid e.
tagged_after(tagged, e) ==
    [k \in DOMAIN tagged \cup {e} |->
        IF k = e THEN (IF e \in DOMAIN tagged THEN tagged[e] + 1 ELSE 1) ELSE tagged[k]]

\* EpochOperator.next, with the calls it makes on the GroupBy.
CountPktsNext(tup) ==
    /\ ~cp_done
    /\ cp_n < MaxAccepts
    /\ IF ~lookup_float_ok("time", tup)
       THEN UNCHANGED cpvars
       ELSE
         LET current_time == lookup_float("time", tup)
             start == epoch_start(cp_boundary, current_time, ScenarioWidth)
             adv == epoch_advance(current_time, start, cp_eid, ScenarioWidth, <<>>)
             out_tup == dict_update(tup, key_out :> IntResult(adv.eid))
             run == groupby_run(Append(adv.out, NextCall(out_tup)), cp_table, <<>>)
         IN
         /\ cp_boundary' = adv.boundary
         /\ cp_eid' = adv.eid
         /\ cp_table' = run.tbl
         /\ cp_out' = cp_out \o run.out
         /\ cp_tagged' = tagged_after(cp_tagged, adv.eid)
         /\ cp_n' = cp_n + 1
         /\ cp_done' = cp_done
    /\ UNCHANGED exceptCountPkts

\* EpochOperator.reset, with the call it makes on the GroupBy.
CountPktsReset(tup) ==
    /\ ~cp_done
    /\ LET after == epoch_after_reset(cp_boundary, cp_eid)
           run == groupby_run(<<ResetCall(epoch_reset_tup(cp_eid))>>, cp_table, <<>>)
       IN
       /\ cp_boundary' = after.boundary
       /\ cp_eid' = after.eid
       /\ cp_table' = run.tbl
       /\ cp_out' = cp_out \o run.out
    /\ cp_done' = TRUE
    /\ UNCHANGED <<cp_tagged, cp_n>>
    /\ UNCHANGED exceptCountPkts

CountPktsNextStep == \E tup \in EpochTuples : CountPktsNext(tup)

CountPktsResetStep == CountPktsReset(EmptyTuple)

CountPktsStep == CountPktsNextStep \/ CountPktsResetStep

(***************************************************************************)
(* The specifications: one operator runs, the others stay as constructed.  *)
(***************************************************************************)
\* An operator that is constructed and receives no call.
EpochIdle == EpochInit /\ epoch_width = ScenarioWidth
GroupByIdle == GroupByInit /\ groupby_func = "single_group" /\ reduce_func = "counter"

InitJoin == JoinInit /\ EpochIdle /\ GroupByIdle /\ DistinctInit /\ FlashInit /\ SumIdle /\ O4EpochInit /\ SonnetGroupByInit /\ O4JoinInit /\ PyJoinInit /\ MergeInit /\ PipeInit /\ ConvInit /\ SumGroupInit /\ CountPktsInit
InitEpoch == JoinInit /\ EpochInit /\ GroupByIdle /\ DistinctInit /\ FlashInit /\ SumIdle /\ O4EpochInit /\ SonnetGroupByInit /\ O4JoinInit /\ PyJoinInit /\ MergeInit /\ PipeInit /\ ConvInit /\ SumGroupInit /\ CountPktsInit
InitGroupBy == JoinInit /\ EpochIdle /\ GroupByInit /\ DistinctInit /\ FlashInit /\ SumIdle /\ O4EpochInit /\ SonnetGroupByInit /\ O4JoinInit /\ PyJoinInit /\ MergeInit /\ PipeInit /\ ConvInit /\ SumGroupInit /\ CountPktsInit
InitSplit == JoinInit /\ EpochIdle /\ GroupByInit /\ DistinctInit /\ FlashInit /\ SumIdle /\ O4EpochInit /\ SonnetGroupByInit /\ O4JoinInit /\ PyJoinInit /\ MergeInit /\ PipeInit /\ ConvInit /\ SumGroupInit /\ CountPktsInit
InitFlash == JoinInit /\ EpochIdle /\ GroupByIdle /\ DistinctInit /\ FlashInit /\ SumIdle /\ O4EpochInit /\ SonnetGroupByInit /\ O4JoinInit /\ PyJoinInit /\ MergeInit /\ PipeInit /\ ConvInit /\ SumGroupInit /\ CountPktsInit
InitSum == JoinInit /\ EpochIdle /\ GroupByIdle /\ DistinctInit /\ FlashInit /\ SumInit /\ O4EpochInit /\ SonnetGroupByInit /\ O4JoinInit /\ PyJoinInit /\ MergeInit /\ PipeInit /\ ConvInit /\ SumGroupInit /\ CountPktsInit
InitO4Epoch == JoinInit /\ EpochIdle /\ GroupByIdle /\ DistinctInit /\ FlashInit /\ SumIdle /\ O4EpochInit /\ SonnetGroupByInit /\ O4JoinInit /\ PyJoinInit /\ MergeInit /\ PipeInit /\ ConvInit /\ SumGroupInit /\ CountPktsInit
InitSonnetGroupBy == JoinInit /\ EpochIdle /\ GroupByIdle /\ DistinctInit /\ FlashInit /\ SumIdle /\ O4EpochInit /\ SonnetGroupByInit /\ O4JoinInit /\ PyJoinInit /\ MergeInit /\ PipeInit /\ ConvInit /\ SumGroupInit /\ CountPktsInit
InitO4Join == JoinInit /\ EpochIdle /\ GroupByIdle /\ DistinctInit /\ FlashInit /\ SumIdle /\ O4EpochInit /\ SonnetGroupByInit /\ O4JoinInit /\ PyJoinInit /\ MergeInit /\ PipeInit /\ ConvInit /\ SumGroupInit /\ CountPktsInit
InitPyJoin == JoinInit /\ EpochIdle /\ GroupByIdle /\ DistinctInit /\ FlashInit /\ SumIdle /\ O4EpochInit /\ SonnetGroupByInit /\ O4JoinInit /\ PyJoinInit /\ MergeInit /\ PipeInit /\ ConvInit /\ SumGroupInit /\ CountPktsInit
InitMerge == JoinInit /\ EpochIdle /\ GroupByIdle /\ DistinctInit /\ FlashInit /\ SumIdle /\ O4EpochInit /\ SonnetGroupByInit /\ O4JoinInit /\ PyJoinInit /\ MergeInit /\ PipeInit /\ ConvInit /\ SumGroupInit /\ CountPktsInit
InitPipe == JoinInit /\ EpochIdle /\ GroupByIdle /\ DistinctInit /\ FlashInit /\ SumIdle /\ O4EpochInit /\ SonnetGroupByInit /\ O4JoinInit /\ PyJoinInit /\ MergeInit /\ PipeInit /\ ConvInit /\ SumGroupInit /\ CountPktsInit
InitConv == JoinInit /\ EpochIdle /\ GroupByIdle /\ DistinctInit /\ FlashInit /\ SumIdle /\ O4EpochInit /\ SonnetGroupByInit /\ O4JoinInit /\ PyJoinInit /\ MergeInit /\ PipeInit /\ ConvInit /\ SumGroupInit /\ CountPktsInit
InitSumGroup == JoinInit /\ EpochIdle /\ GroupByIdle /\ DistinctInit /\ FlashInit /\ SumIdle /\ O4EpochInit /\ SonnetGroupByInit /\ O4JoinInit /\ PyJoinInit /\ MergeInit /\ PipeInit /\ ConvInit /\ SumGroupInit /\ CountPktsInit
InitCountPkts == JoinInit /\ EpochIdle /\ GroupByIdle /\ DistinctInit /\ FlashInit /\ SumIdle /\ O4EpochInit /\ SonnetGroupByInit /\ O4JoinInit /\ PyJoinInit /\ MergeInit /\ PipeInit /\ ConvInit /\ SumGroupInit /\ CountPktsInit

SpecJoin == InitJoin /\ [][JoinStep]_vars
SpecJoinEnd == InitJoin /\ [][JoinEndStep]_vars
SpecJoinInOrder == InitJoin /\ [][JoinInOrderStep]_vars
SpecEpoch == InitEpoch /\ [][EpochStep]_vars
SpecGroupBy == InitGroupBy /\ [][GroupByStep]_vars
SpecSplit == InitSplit /\ [][SplitStep]_vars
SpecFlash == InitFlash /\ [][FlashStep]_vars
SpecSum == InitSum /\ [][SumStep]_vars
SpecO4Epoch == InitO4Epoch /\ [][O4EpochStep]_vars
SpecSonnetGroupBy == InitSonnetGroupBy /\ [][SonnetGroupByStep]_vars
SpecO4Join == InitO4Join /\ [][O4JoinStep]_vars
SpecPyJoin == InitPyJoin /\ [][PyJoinStep]_vars
SpecMerge == InitMerge /\ [][MergeStep]_vars
SpecPipe == InitPipe /\ [][PipeStep]_vars
SpecConv == InitConv /\ [][ConvStep]_vars
SpecSumGroup == InitSumGroup /\ [][SumGroupStep]_vars
SpecCountPkts == InitCountPkts /\ [][CountPktsStep]_vars

(***************************************************************************)
(* Claims about Join, checked under SpecJoin.                              *)
(***************************************************************************)
\* The epoch a forwarded reset or merged tuple carries.
EpochOf(call) == call.tup[eid_key].v

\* The (extracted key, epoch) pair of a merge and the merges of a pair.
PairOf(m) == <<m.arriving.key, m.arriving.epoch>>
MergesOf(pair) == { i \in DOMAIN j_mlog : PairOf(j_mlog[i]) = pair }
Pairs == KeyDicts \X Epochs
Accepted(S, pair) == IF pair \in DOMAIN j_cnt[S] THEN j_cnt[S][pair] ELSE 0
Min(a, b) == IF a < b THEN a ELSE b

\* C1: a reset {eid_key: E} is forwarded downstream only after each of the
\* two sides has received a next or a reset whose epoch is greater than E.
C1_FlushOnlyAfterBothSidesPassed ==
    \A i \in DOMAIN j_out :
        j_out[i].op = "reset" =>
            \A S \in Sides : \E e \in j_seen[S] : e > EpochOf(j_out[i])

\* Two resets have been forwarded, the second by the side that caught up.
C1_Witness ==
    /\ Len(j_out) >= 2
    /\ j_out[1] = ResetCall(eid_key :> IntResult(0))
    /\ j_out[2] = ResetCall(eid_key :> IntResult(1))

\* C2 as stated: once reset {eid_key: E} has been forwarded, no merged tuple
\* whose epoch field is E is forwarded afterwards.
C2_NoMergeAfterFlush ==
    \A i, j \in DOMAIN j_out :
        (i < j /\ j_out[i].op = "reset" /\ j_out[j].op = "next")
            => EpochOf(j_out[j]) # EpochOf(j_out[i])

\* C2 amended: once reset {eid_key: E} has been forwarded, a merged tuple
\* whose epoch field is E is forwarded afterwards only for a late record,
\* one whose epoch is below its own side's counter when it is accepted.
C2_NoMergeAfterFlushUnlessLate ==
    \A m \in DOMAIN j_mlog :
        ~j_mlog[m].late =>
            \A i \in 1 .. (j_mlog[m].pos - 1) :
                j_out[i].op = "reset" => EpochOf(j_out[i]) # EpochOf(j_out[j_mlog[m].pos])

\* A merge for epoch E by a record that is not late, followed by the reset
\* for E.
C2_Witness ==
    \E m \in DOMAIN j_mlog : \E i \in DOMAIN j_out :
        /\ ~j_mlog[m].late
        /\ i > j_mlog[m].pos
        /\ j_out[i].op = "reset"
        /\ EpochOf(j_out[i]) = EpochOf(j_out[j_mlog[m].pos])

\* C3: every merged tuple comes from one left and one right record with
\* equal extracted keys and equal epochs.
C3_MergeOnlyEqualKeyAndEpoch ==
    /\ \A m \in DOMAIN j_mlog :
        /\ j_mlog[m].arriving.key = j_mlog[m].stored.key
        /\ j_mlog[m].arriving.epoch = j_mlog[m].stored.epoch
    /\ \A i \in DOMAIN j_out :
        j_out[i].op = "next" => \E m \in DOMAIN j_mlog : j_mlog[m].pos = i

\* A merge has been forwarded while a left and a right record with the same
\* extracted key and different epochs are both pending, unmerged.
C3_Witness ==
    /\ j_mlog # <<>>
    /\ \E a \in DOMAIN j_prov["left"] : \E b \in DOMAIN j_prov["right"] :
        /\ j_prov["left"][a].key = j_prov["right"][b].key
        /\ j_prov["left"][a].epoch # j_prov["right"][b].epoch

\* C4: a stored value is taken out of its table by the record that matches
\* it, so that no value is in more than one merged tuple: no value that is
\* merged, or still in a table, has been in a merged tuple before.
C4_StoredValueMergedAtMostOnce ==
    /\ \A m \in DOMAIN j_mlog : j_mlog[m].stored.used = 0
    /\ \A S \in Sides : \A fk \in DOMAIN j_prov[S] : j_prov[S][fk].used = 0
    /\ \A S \in Sides : DOMAIN j_prov[S] = DOMAIN h_table[S]

\* After a match, two more records with the matched key and epoch arrived on
\* the matching side: the first was stored, the second replaced it.
C4_Witness ==
    \E m \in DOMAIN j_mlog :
        /\ Accepted(j_mlog[m].side, PairOf(j_mlog[m])) >= 2
        /\ join_key(j_mlog[m].arriving.key, j_mlog[m].arriving.epoch)
               \in DOMAIN h_table[j_mlog[m].side]

\* C5 as stated: at most one merged tuple per (extracted key, epoch) pair.
C5_OneMergePerKeyEpoch ==
    \A pair \in Pairs : Cardinality(MergesOf(pair)) <= 1

\* C5 amended: per (extracted key, epoch) pair, at most as many merged tuples
\* as the smaller of the numbers of left and of right records accepted with
\* that pair; so at most one when either side sends the pair once.
C5_MergesBoundedByRecords ==
    \A pair \in Pairs :
        Cardinality(MergesOf(pair)) <= Min(Accepted("left", pair), Accepted("right", pair))

\* One side sent a pair twice, the other once: one merged tuple.
C5_Witness ==
    \E pair \in Pairs :
        /\ Accepted("left", pair) = 2
        /\ Accepted("right", pair) = 1
        /\ Cardinality(MergesOf(pair)) = 1

\* The fields of the key, the epoch and both values, each taken from the one
\* tuple that has it.
FieldsUnion(ts) ==
    [k \in UNION { DOMAIN t : t \in ts } |-> (CHOOSE t \in ts : k \in DOMAIN t)[k]]

NoCommonField(m) ==
    /\ DOMAIN m.arriving.vals \cap DOMAIN m.stored.vals = {}
    /\ DOMAIN m.arriving.vals \cap (DOMAIN m.arriving.key \cup {eid_key}) = {}
    /\ DOMAIN m.stored.vals \cap (DOMAIN m.arriving.key \cup {eid_key}) = {}

Accepted1 == e_last.op = "next" /\ e_last.ok
\* The eid attached to the tuple that call forwarded, and the tuple's time.
Tagged == e_out[Len(e_out)].tup[key_out].v
TimeOfLast == lookup_float("time", e_last.tup)

ScenarioOut ==
    << NextCall("time" :> FloatResult(0) @@ key_out :> IntResult(0)),
       NextCall("time" :> FloatResult(5) @@ key_out :> IntResult(0)),
       ResetCall(key_out :> IntResult(0)),
       NextCall("time" :> FloatResult(12) @@ key_out :> IntResult(1)),
       ResetCall(key_out :> IntResult(1)),
       NextCall("time" :> FloatResult(25) @@ key_out :> IntResult(2)) >>

\* C8: a next that moves eid from a to b forwards reset {key_out: a}, ...,
\* reset {key_out: b-1} in that order and then the tuple tagged b, and only
\* the tuple when eid does not change; the scenario gives tags 0, 0, 1, 2
\* and the two resets {eid: 0}, {eid: 1}.
C8_ResetPerBoundaryBeforeTuple ==
    /\ Accepted1 =>
        LET a == e_last.eid_before
            b == eid
        IN /\ b >= a
           /\ Len(e_out) = b - a + 1
           /\ \A i \in 1 .. (b - a) : e_out[i] = ResetCall(key_out :> IntResult(a + i - 1))
           /\ e_out[b - a + 1] = NextCall(dict_update(e_last.tup, key_out :> IntResult(b)))
    /\ e_run.n = Len(ScenarioTimes) => e_run.out = ScenarioOut

\* The scenario has been fed whole.
C8_Witness == e_run.n = Len(ScenarioTimes) /\ eid = 2 /\ Len(e_out) = 2

\* C9: a reset forwards one reset {key_out: eid} for the eid it finds and
\* leaves boundary 0.0 and eid 0; the next tuple accepted is tagged 0 and
\* sets boundary to its time plus width.
C9_ExternalResetRestartsEpochs ==
    /\ e_last.op = "reset" =>
        /\ e_out = <<ResetCall(key_out :> IntResult(e_last.eid_before))>>
        /\ epoch_boundary = 0
        /\ eid = 0
    /\ (Accepted1 /\ e_last.first /\ e_was_reset) =>
        /\ e_out = <<NextCall(dict_update(e_last.tup, key_out :> IntResult(0)))>>
        /\ eid = 0
        /\ epoch_boundary = TimeOfLast + epoch_width

\* A reset that found eid 2 has been forwarded.
C9_Witness ==
    /\ e_last.op = "reset"
    /\ e_last.eid_before = 2
    /\ e_out = <<ResetCall(key_out :> IntResult(2))>>

(***************************************************************************)
(* Claims about GroupBy, checked under SpecGroupBy.                        *)
(***************************************************************************)
\* C10: with the counter reduction, after N >= 1 tuples that all have the
\* same grouping key, a reset forwards exactly one tuple, whose out_key is
\* Int(N), and then the reset.
C10_CounterForwardsCountThenReset ==
    (/\ g_last.op = "reset"
     /\ reduce_func = "counter"
     /\ g_last.n >= 1
     /\ Cardinality(g_last.keys) = 1) =>
        /\ Len(g_out) = 2
        /\ g_out[1].op = "next"
        /\ out_key \in DOMAIN g_out[1].tup
        /\ g_out[1].tup[out_key] = IntResult(g_last.n)
        /\ g_out[2] = ResetCall(g_last.tup)

\* The scenario: single_group and counter, five tuples, then reset({}).
C10_Witness ==
    /\ groupby_func = "single_group"
    /\ reduce_func = "counter"
    /\ g_last.op = "reset"
    /\ g_last.n = 5
    /\ g_out = <<NextCall(out_key :> IntResult(5)), ResetCall(EmptyTuple)>>

(***************************************************************************)
(* Claims about GroupBy and Distinct behind one Split, checked under       *)
(* SpecSplit.                                                              *)
(***************************************************************************)
\* The calls of out are: one next per element of held, each built by
\* final(_), in some order, and then one reset(ctx).
OnePerKeyThenReset(out, held, final(_), ctx) ==
    /\ Len(out) = Cardinality(held) + 1
    /\ \E order \in Orders(held) :
          \A i \in 1 .. Cardinality(held) : out[i] = NextCall(final(order[i]))
    /\ out[Len(out)] = ResetCall(ctx)

\* C11: on reset(ctx), GroupBy and Distinct each forward one next per key
\* they hold, then exactly one reset(ctx), and hold nothing afterwards;
\* their next calls nothing downstream.
C11_OneNextPerKeyThenOneReset ==
    /\ g_last.op = "next" => g_out = <<>>
    /\ d_last.op = "next" => d_out = <<>>
    /\ g_last.op = "reset" =>
          LET tbl == g_last.table
              final(i) == groupby_final_tup(g_last.tup, tbl[i].key, tbl[i].val)
          IN /\ OnePerKeyThenReset(g_out, DOMAIN tbl, final, g_last.tup)
             /\ \A i, j \in DOMAIN tbl : i /= j => tbl[i].key /= tbl[j].key
             /\ hash_table = <<>>
    /\ d_last.op = "reset" =>
          LET final(k) == distinct_final_tup(d_last.tup, k)
          IN /\ OnePerKeyThenReset(d_out, d_last.set, final, d_last.tup)
             /\ hash_set = {}

\* A reset with a context tuple, reaching a GroupBy that holds two groups
\* and a Distinct that holds three keys.
C11_Witness ==
    /\ g_last.op = "reset" /\ d_last.op = "reset"
    /\ g_last.tup = ("eid" :> IntResult(0))
    /\ Len(g_last.table) = 2 /\ Len(g_out) = 3
    /\ Cardinality(d_last.set) = 3 /\ Len(d_out) = 4

(***************************************************************************)
(* Claims about distinct, checked under SpecFlash.                         *)
(***************************************************************************)
\* The next calls among the calls of a log.
NextsOf(out) == { i \in DOMAIN out : out[i].op = "next" }

\* C12: the number of tuples distinct forwards on reset is the number of
\* distinct values the grouping function took over the tuples accepted since
\* the previous reset, and a next whose key is already in the set changes
\* nothing.
C12_ForwardsOnePerDistinctValue ==
    /\ f_last.op = "reset" => Cardinality(NextsOf(f_out)) = Cardinality(f_last.vals)
    /\ (f_last.op = "next" /\ plain(f_last.key) \in f_last.vals) => h_tbl = f_last.set

\* Two tuples whose field holds Int 1 in two objects, then a reset: two
\* tuples are forwarded for one value.
C12_TwoForOneValue ==
    /\ f_last.op = "reset"
    /\ f_last.vals = { ("ipv4.src" :> IntResult(1)) }
    /\ Cardinality(NextsOf(f_out)) = 2

(***************************************************************************)
(* Claims about sum_ints, checked under SpecSum.                           *)
(***************************************************************************)
\* The last call of sum_ints had a tuple with an int under search_key.
FieldIsInt == lookup_int_ok(search_key, s_last.tup)

\* C13 as stated: Int(0) on Empty, Int(n + t[field]) on Int(n), and a
\* failure on every call whose tuple has no int under the field.
C13_SumIntsFailsWheneverFieldNotInt ==
    s_last.op = "sum_ints" =>
        /\ ~FieldIsInt => ~s_last.res.ok
        /\ (FieldIsInt /\ s_last.acc = EmptyResult) => s_last.res = Returned(IntResult(0))
        /\ (FieldIsInt /\ s_last.acc.tag = "Int") =>
              s_last.res = Returned(IntResult(s_last.acc.v + lookup_int(search_key, s_last.tup)))

\* C13, amended: Int(0) on Empty whatever the tuple holds; on Int(n),
\* Int(n + t[field]) when the field holds an int and a failure otherwise.
C13_SumIntsFailsOnIntAccumulatorOnly ==
    s_last.op = "sum_ints" =>
        /\ s_last.acc = EmptyResult => s_last.res = Returned(IntResult(0))
        /\ (s_last.acc.tag = "Int" /\ FieldIsInt) =>
              s_last.res = Returned(IntResult(s_last.acc.v + lookup_int(search_key, s_last.tup)))
        /\ (s_last.acc.tag = "Int" /\ ~FieldIsInt) => ~s_last.res.ok

\* An Empty accumulator and a tuple without the field: Int(0) is returned.
C13_Witness ==
    /\ s_last.op = "sum_ints"
    /\ s_last.acc = EmptyResult
    /\ search_key \notin DOMAIN s_last.tup
    /\ s_last.res = Returned(IntResult(0))
    /\ init_val = IntResult(0)

(***************************************************************************)
(* Claims about failing calls.                                             *)
(***************************************************************************)
\* The last call on GroupBy was a next whose reducer, sum_ints, found no int
\* under search_key.
ReducerFoundNoInt ==
    /\ g_last.op = "next"
    /\ reduce_func = "sum_ints"
    /\ ~lookup_int_ok(search_key, g_last.tup)

\* C14 (checked under SpecGroupBy): when the reducer of a next finds its
\* field missing or not an int, the group table is what it was before the
\* call.
C14_FailedNextLeavesTableUnchanged ==
    ReducerFoundNoInt => hash_table = g_last.table

\* A next without the field has added a group whose value is None.
C14_GroupAddedByFailedNext ==
    /\ ReducerFoundNoInt
    /\ g_last.table = <<>>
    /\ hash_table = << [key |-> ("ipv4.src" :> IntResult(1)), val |-> EmptyResult] >>

\* C15 (checked under SpecEpoch): a next whose tuple has no float under
\* "time" raises to its caller.
C15_TimeErrorIsRaised ==
    (e_last.op = "next" /\ ~e_last.ok) => e_last.raised

\* A next without a time field has returned normally and forwarded nothing.
C15_TupleDroppedSilently ==
    /\ e_last.op = "next"
    /\ e_last.tup = EmptyTuple
    /\ ~e_last.ok
    /\ ~e_last.raised
    /\ e_out = <<>>

(***************************************************************************)
(* Claims about the tuple a caller passes, checked under SpecO4Epoch.      *)
(***************************************************************************)
\* C16: when a call of the operator has returned, the caller's tuple has
\* the fields and values it had when it was passed.
C16_CallerTupleUnchanged ==
    o4_last.op /= "none" => o4_tup = o4_last.tup

\* The caller passed {time: 1.2} and holds {time: 1.2, eid: 1} afterwards,
\* the very tuple that was forwarded.
C16_CallerTupleTagged ==
    /\ o4_last.op = "next"
    /\ o4_last.tup = ("time" :> FloatResult(12))
    /\ o4_tup = ("time" :> FloatResult(12) @@ key_out :> IntResult(1))
    /\ o4_out[Len(o4_out)] = NextCall(o4_tup)

(***************************************************************************)
(* Claims about keys, checked under SpecSonnetGroupBy.                     *)
(***************************************************************************)
\* C17: two grouping keys with the same field names and values are one
\* key: the table never holds two groups whose keys are the same mapping.
C17_EqualKeysAreOneGroup ==
    \A i, j \in DOMAIN sn_h_tbl :
        as_map(sn_h_tbl[i].key) = as_map(sn_h_tbl[j].key) => i = j

\* Two tuples with src 1 and dst 2, inserted in opposite orders, are held
\* as two groups of one tuple each.
C17_TwoGroupsForOneKey ==
    /\ Len(sn_h_tbl) = 2
    /\ as_map(sn_h_tbl[1].key) = as_map(sn_h_tbl[2].key)
    /\ as_map(sn_h_tbl[1].key) = ("ipv4.src" :> IntResult(1) @@ "ipv4.dst" :> IntResult(2))
    /\ sn_h_tbl[1].val = IntResult(1) /\ sn_h_tbl[2].val = IntResult(1)

(***************************************************************************)
(* Claims about the epoch counters of a join, checked under SpecO4Join.    *)
(***************************************************************************)
\* C18: the two sides work on one pair of counters (what a side reads as
\* the other's counter is the other's counter), so that reset {eid_key: E}
\* has been forwarded once both sides have passed E.
C18_SidesShareEpochCounters ==
    /\ \A S \in Sides : other_epoch_ref[S] = my_epoch_ref[Other(S)]
    /\ \A E \in Epochs :
          (\A S \in Sides : my_epoch_ref[S] > E) =>
              \E i \in DOMAIN o4j_out : o4j_out[i] = ResetCall(eid_key :> IntResult(E))

\* Both sides have passed epochs 0 and 1, each still reads 0 as the other's
\* counter, and no reset has been forwarded.
C18_BothPassedNoReset ==
    /\ my_epoch_ref = [S \in Sides |-> 2]
    /\ other_epoch_ref = [S \in Sides |-> 0]
    /\ o4j_out = <<>>

(***************************************************************************)
(* Claims about the loop of the join's next, checked under SpecPyJoin.     *)
(***************************************************************************)
Max(a, b) == IF a > b THEN a ELSE b

\* C19: the loop of next runs max(0, epoch - epoch_S) iterations, each of
\* which increments epoch_S, and next returns with epoch_S at
\* max(epoch_S, epoch).
C19_LoopRunsEpochDifferenceTimes ==
    /\ pj_pc.at = "while" =>
          /\ pj_pc.iterations <= Max(0, pj_pc.curr_e - pj_pc.entered_at)
          /\ curr_epoch_cell[pj_pc.side] = pj_pc.entered_at + pj_pc.iterations
    /\ (pj_last.op = "next" /\ pj_last.ended = "returned") =>
          /\ pj_last.iterations = Max(0, pj_last.curr_e - pj_last.entered_at)
          /\ curr_epoch_cell[pj_last.side] >= pj_last.curr_e

\* A next carrying epoch 1 on a side whose counter is 0 has gone round its
\* loop MaxIter times, and the counter is still 0.
C19_LoopStillRunning ==
    /\ pj_pc.at = "while"
    /\ pj_pc.curr_e = 1
    /\ pj_pc.entered_at = 0
    /\ pj_pc.iterations = MaxIter
    /\ curr_epoch_cell[pj_pc.side] = 0

(***************************************************************************)
(* Claims about the join's reset, checked under SpecJoin.                  *)
(***************************************************************************)
\* The calls forwarded downstream by the last call whose epoch was read.
ForwardedByLast == SubSeq(j_out, j_last.at + 1, Len(j_out))

\* C20: a reset carrying epoch e on a side leaves that side's counter, and
\* forwards downstream the resets, that the advancement loop of a next
\* carrying e would from the same counters; it forwards no next call and
\* leaves the other side's counter alone.
C20_ResetAdvancesAsNextWould ==
    j_last.op = "reset" =>
        LET S == j_last.side
            as_next == join_advance(j_last.before[S], j_last.before[Other(S)],
                                    j_last.epoch, <<>>)
        IN /\ curr_epoch[S] = as_next.epoch_ref
           /\ curr_epoch[Other(S)] = j_last.before[Other(S)]
           /\ ForwardedByLast = as_next.out
           /\ \A i \in 1..Len(ForwardedByLast) : ForwardedByLast[i].op # "next"

\* A reset that advanced its side past an epoch the other side had already
\* passed, and so forwarded a reset downstream.
C20_Witness ==
    /\ j_last.op = "reset"
    /\ curr_epoch[j_last.side] > j_last.before[j_last.side]
    /\ Len(ForwardedByLast) >= 1

(***************************************************************************)
(* Claims about the join's tables, checked under SpecJoin.                 *)
(***************************************************************************)
\* The last call was a next that found no match and stored its values.
LastNextStored == j_last.op = "next" /\ ~j_last.matched

\* C21: a next stores its values only under a key that has no pending value
\* in the table of its own side.
C21_StoresOnlyUnderFreeKey ==
    LastNextStored => j_last.key \notin DOMAIN j_last.tables[j_last.side]

\* A next stored its values under a key that was already pending in the
\* table of its own side; the table still has one entry for the key.
C21_StoredOverPendingValue ==
    /\ LastNextStored
    /\ j_last.key \in DOMAIN j_last.tables[j_last.side]
    /\ DOMAIN h_table[j_last.side] = DOMAIN j_last.tables[j_last.side]

\* C22: an entry leaves a table only when the last call was a next on the
\* opposite side that built the entry's key; a reset changes no table, and a
\* next changes no entry stored under another key, wherever the counters
\* stand.
C22_EntriesLeaveOnlyByMatch ==
    /\ j_last.op = "reset" => h_table = j_last.tables
    /\ j_last.op = "next" =>
          \A T \in Sides : \A k \in DOMAIN j_last.tables[T] :
              /\ k \notin DOMAIN h_table[T] =>
                    (T = Other(j_last.side) /\ k = j_last.key /\ j_last.matched)
              /\ k # j_last.key =>
                    (k \in DOMAIN h_table[T] /\ h_table[T][k] = j_last.tables[T][k])

\* A reset has moved its side's counter two or more past the epoch of an
\* entry pending in that side's table, the other side's counter is past it
\* too, and the entry is still there.
C22_Witness ==
    /\ j_last.op = "reset"
    /\ \E k \in DOMAIN h_table[j_last.side] :
          /\ k[eid_key].v + 2 <= curr_epoch[j_last.side]
          /\ k[eid_key].v < curr_epoch[Other(j_last.side)]
          /\ j_last.before[j_last.side] <= k[eid_key].v

(***************************************************************************)
(* Claims about merges, checked under SpecMerge.                           *)
(***************************************************************************)
\* The value of field f in the earliest listed tuple that has it.
FirstListed(listed, f) ==
    LET i == CHOOSE n \in 1 .. Len(listed) :
                 /\ f \in DOMAIN listed[n]
                 /\ \A j \in 1 .. n - 1 : f \notin DOMAIN listed[j]
    IN listed[i][f]

ListedFields(listed) == UNION { DOMAIN listed[i] : i \in 1 .. Len(listed) }

\* C23: in the merge of GroupBy's reset (reset tuple, grouping key), of
\* Distinct's reset (reset tuple, key) and of a join match (key with epoch,
\* arriving values, stored values), every field has the value of the
\* earliest listed tuple that has the field; GroupBy then writes the
\* accumulated value under out_key.
C23_EarliestListedTupleWins ==
    m_site \in MergeSites =>
        /\ DOMAIN m_merged =
              ListedFields(m_listed) \cup (IF m_site = "groupby" THEN {out_key} ELSE {})
        /\ \A f \in ListedFields(m_listed) :
              (m_site = "groupby" /\ f = out_key)
              \/ m_merged[f] = FirstListed(m_listed, f)

\* All three operators have merged tuples sharing a field name, and the
\* last merge is a join match in which the key, the arriving values and
\* the stored values disagree on a field.
C23_Witness ==
    /\ m_conflicts = MergeSites
    /\ m_site = "join"
    /\ \E f \in MergeFields :
          /\ \A i \in 1 .. 3 : f \in DOMAIN m_listed[i]
          /\ m_listed[1][f] # m_listed[2][f]
          /\ m_listed[2][f] # m_listed[3][f]

(***************************************************************************)
(* Claims about Filter, Map and Split, checked under SpecPipe.             *)
(***************************************************************************)
LastWas(operator, op) == pipe_last.operator = operator /\ pipe_last.op = op

\* C24: Filter's next forwards the tuple it was given, once, when its
\* predicate returned True, and forwards nothing otherwise.
C24_FilterForwardsIffPredicateTrue ==
    LastWas("filter", "next") =>
        pipe_out = IF pipe_last.result.ok /\ pipe_last.result.val = TRUE
                   THEN <<NextCall(pipe_last.tup)>>
                   ELSE <<>>

\* Filter was given a tuple on which the lambda predicate raised, and
\* forwarded nothing.
C24_Witness ==
    /\ LastWas("filter", "next")
    /\ ~pipe_last.result.ok
    /\ pipe_out = <<>>

\* C25: Split's next calls next on the left operator and then on the right
\* one, and its reset calls reset on the left and then on the right, each
\* once and with the tuple it was given.
C25_SplitCallsLeftThenRight ==
    pipe_last.operator = "split" =>
        /\ Len(pipe_out) = 2
        /\ pipe_out[1] = [to |-> "left", op |-> pipe_last.op, tup |-> pipe_last.tup]
        /\ pipe_out[2] = [to |-> "right", op |-> pipe_last.op, tup |-> pipe_last.tup]

\* Split's reset called a left operator that raised, and then the right one.
C25_Witness ==
    /\ LastWas("split", "reset")
    /\ "left" \in pipe_last.failing
    /\ Len(pipe_out) = 2
    /\ pipe_out[2].to = "right"

\* C26: the reset of Filter and of Map forwards reset once with the tuple
\* it was given, whatever predicate or function the operator has; Map's
\* next forwards once the tuple its function returned.
C26_ResetForwardedAndMapForwardsResult ==
    /\ (LastWas("filter", "reset") \/ LastWas("map", "reset")) =>
          pipe_out = <<ResetCall(pipe_last.tup)>>
    /\ (LastWas("map", "next") /\ pipe_last.result.ok) =>
          pipe_out = <<NextCall(pipe_last.result.val)>>

\* Map, whose function raises on tuples without the fields it reads,
\* forwarded a reset carrying a field.
C26_Witness ==
    /\ LastWas("map", "reset")
    /\ pipe_last.given = "lambda"
    /\ pipe_last.tup # EmptyTuple
    /\ pipe_out = <<ResetCall(pipe_last.tup)>>

(***************************************************************************)
(* Claims about the extraction helpers, checked under SpecConv.            *)
(***************************************************************************)
\* C27: int_of_op_result returns the integer of an Int result and raises
\* for every other result, None included; float_of_op_result returns the
\* float of a Float result and raises for every other result.
C27_ExtractionNeverConverts ==
    /\ conv_last.fn = "int_of_op_result" =>
          /\ conv_last.result.ok <=> conv_last.arg.tag = "Int"
          /\ conv_last.result.ok => conv_last.result.val = conv_last.arg.v
    /\ conv_last.fn = "float_of_op_result" =>
          /\ conv_last.result.ok <=> conv_last.arg.tag = "Float"
          /\ conv_last.result.ok => conv_last.result.val = conv_last.arg.v

\* int_of_op_result was given the float 1.0 and raised.
C27_Witness ==
    /\ conv_last.fn = "int_of_op_result"
    /\ conv_last.arg = FloatResult(10)
    /\ ~conv_last.result.ok

(***************************************************************************)
(* Claims about the end of the join's streams, checked under SpecJoinEnd.  *)
(***************************************************************************)
\* The epochs of the merged tuples and of the resets forwarded so far.
MergedEpochs == { EpochOf(j_out[i]) : i \in { n \in DOMAIN j_out : j_out[n].op = "next" } }
FlushedEpochs == { EpochOf(j_out[i]) : i \in { n \in DOMAIN j_out : j_out[n].op = "reset" } }

\* Both sides have received their end-of-stream reset, carrying epoch E;
\* no call follows.
StreamsEndedAt(E) == \A S \in Sides : j_end[S] = {E}

\* C28 as stated: when both streams have ended with a reset carrying E, the
\* reset of every epoch up to and including E that has a merged tuple has
\* been forwarded.
C28_MergedEpochsUpToEndFlushed ==
    \A E \in Epochs :
        StreamsEndedAt(E) => \A M \in MergedEpochs : M <= E => M \in FlushedEpochs

\* C28 amended: when both streams have ended with a reset carrying E, the
\* reset of every epoch below E that has a merged tuple has been forwarded.
C28_MergedEpochsBelowEndFlushed ==
    \A E \in Epochs :
        StreamsEndedAt(E) => \A M \in MergedEpochs : M < E => M \in FlushedEpochs

\* Both streams have ended with a reset carrying E, and the second of the
\* two resets forwarded the reset of an earlier epoch that has a merged
\* tuple.
C28_Witness ==
    \E E \in Epochs :
        /\ StreamsEndedAt(E)
        /\ \E M \in MergedEpochs : M < E /\ M \in FlushedEpochs
        /\ j_last.op = "reset" /\ Len(ForwardedByLast) >= 1

(***************************************************************************)
(* Claims about the resets the join forwards, checked under SpecJoin.      *)
(***************************************************************************)
\* The resets forwarded so far, in order.
ForwardedResets == SelectSeq(j_out, LAMBDA call : call.op = "reset")

\* C29: in every reachable state the resets forwarded so far carry the
\* epochs 0, 1, ..., min(left counter, right counter) - 1, in this order,
\* each once.
C29_FlushedEpochsAreThoseBelowBothCounters ==
    /\ Len(ForwardedResets) = Min(curr_epoch["left"], curr_epoch["right"])
    /\ \A i \in 1 .. Len(ForwardedResets) :
          ForwardedResets[i] = ResetCall(eid_key :> IntResult(i - 1))

\* Two resets have been forwarded by two different calls, the second of
\* them a reset that brought the lower counter to 2.
C29_Witness ==
    /\ Len(ForwardedResets) = 2
    /\ j_last.op = "reset" /\ Len(ForwardedByLast) = 1
    /\ Min(curr_epoch["left"], curr_epoch["right"]) = 2

(***************************************************************************)
(* Claims about calls in epoch order, checked under SpecJoinInOrder.       *)
(***************************************************************************)
\* C30: when on each side the epochs of successive calls never decrease, no
\* merged tuple is forwarded after the reset of its epoch.
C30_InOrderNoMergeAfterFlush ==
    \A n \in DOMAIN j_out :
        j_out[n].op = "next" =>
            EpochOf(j_out[n]) \notin
                { EpochOf(j_out[i]) : i \in { k \in 1 .. n - 1 : j_out[k].op = "reset" } }

\* A merged tuple of an epoch was forwarded, then the reset of that epoch,
\* then a merged tuple of a later epoch.
C30_Witness ==
    \E i, j, n \in DOMAIN j_out :
        /\ i < j /\ j < n
        /\ j_out[i].op = "next" /\ j_out[j].op = "reset" /\ j_out[n].op = "next"
        /\ EpochOf(j_out[i]) = EpochOf(j_out[j])
        /\ EpochOf(j_out[n]) > EpochOf(j_out[j])

(***************************************************************************)
(* Claims about GroupBy with sum_ints, checked under SpecSumGroup.         *)
(***************************************************************************)
\* The last call was a reset, and group i was fed only tuples with an int
\* under the summed field.
FlushedIntGroup(i) ==
    /\ sg_last.op = "reset"
    /\ i \in DOMAIN sg_last.fed
    /\ sg_last.fed[i].ints

ResetMerge == m_site \in {"groupby", "distinct"}

ContextAndKeyFields == DOMAIN m_listed[1] \cap DOMAIN m_listed[2]

\* C32 as stated: a field that the reset tuple and the grouping key share
\* has, in the tuple forwarded, the value of the grouping key.
C32_KeyValueWins ==
    ResetMerge => \A f \in ContextAndKeyFields : m_merged[f] = m_listed[2][f]

\* C32 amended: a field that the reset tuple and the grouping key share
\* has, in the tuple forwarded, the value of the reset tuple; in GroupBy the
\* field out_key has the accumulated value instead.
C32_ContextValueWins ==
    ResetMerge =>
        \A f \in ContextAndKeyFields :
            (m_site = "groupby" /\ f = out_key) \/ m_merged[f] = m_listed[1][f]

\* Distinct's reset merged a reset tuple and a key that disagree on the
\* field eid, and forwarded the reset tuple's value.
C32_Witness ==
    /\ m_site = "distinct"
    /\ eid_key \in ContextAndKeyFields
    /\ m_listed[1][eid_key] # m_listed[2][eid_key]
    /\ m_merged[eid_key] = m_listed[1][eid_key]

(***************************************************************************)
(* A claim about the two tables of Join, checked under SpecJoin.           *)
(***************************************************************************)
\* C35: no full key (join key with its epoch) is in the left table and in
\* the right table at once.
C35_NoKeyInBothTables ==
    DOMAIN h_table["left"] \cap DOMAIN h_table["right"] = {}

\* A tuple has just matched and consumed the other side's entry, and both
\* tables still hold entries.
C35_Witness ==
    /\ j_last.op = "next"
    /\ j_last.matched
    /\ j_last.key \notin DOMAIN h_table[Other(j_last.side)]
    /\ j_last.key \notin DOMAIN h_table[j_last.side]
    /\ h_table["left"] # <<>>
    /\ h_table["right"] # <<>>

\* C37: the tuple GroupBy forwards for a group has, under out_key, the
\* accumulated value of the group, whatever the reset tuple and the grouping
\* key hold under that name.
C37_OutKeyHoldsAccumulatedValue ==
    m_site = "groupby" =>
        /\ out_key \in DOMAIN m_merged
        /\ m_merged[out_key] = m_val

\* The reset tuple and the grouping key both have a field out_key, with a
\* value that is not the accumulated one.
C37_Witness ==
    /\ m_site = "groupby"
    /\ out_key \in ContextAndKeyFields
    /\ m_listed[1][out_key] # m_val
    /\ m_listed[2][out_key] # m_val
    /\ m_merged[out_key] = m_val

(***************************************************************************)
(* A claim about what GroupBy carries from one flush to the next, checked  *)
(* under SpecGroupBy.                                                      *)
(***************************************************************************)
\* C36: what a reset forwards is what a GroupBy constructed at the previous
\* reset and given the tuples accepted since would forward, so nothing of
\* the epochs before counts; and a reset with no tuple accepted since the
\* previous one forwards the reset alone.
C36_FlushDependsOnlyOnItsEpoch ==
    g_last.op = "reset" =>
        /\ g_out = groupby_flush(g_last.fresh, g_last.tup)
        /\ g_last.n = 0 => g_out = <<ResetCall(g_last.tup)>>

\* A reset that forwards a group, after an earlier reset that forwarded one.
C36_Witness ==
    /\ g_last.op = "reset"
    /\ g_last.flushed
    /\ g_last.n > 0
    /\ Len(g_out) >= 2
    /\ g_out[1].op = "next"

CountsForwarded == SelectSeq(cp_out, LAMBDA call : call.op = "next")

CountsForwardedWith(k) ==
    SelectSeq(cp_out, LAMBDA call : call.op = "next" /\ call.tup[key_out] = IntResult(k))

RECURSIVE SumOfCounts(_)
SumOfCounts(calls) ==
    IF calls = <<>> THEN 0 ELSE Head(calls).tup[out_key].v + SumOfCounts(Tail(calls))

\* C33: when the stream has ended with the external reset, the counts
\* forwarded add up to the number of tuples accepted, one count is forwarded
\* for each eid that tagged a tuple and it is the number of tuples tagged so,
\* and no count is forwarded for another eid.
C33_CountsPerEpochAddUp ==
    cp_done =>
        /\ SumOfCounts(CountsForwarded) = cp_n
        /\ \A k \in DOMAIN cp_tagged :
              CountsForwardedWith(k) = <<NextCall(key_out :> IntResult(k) @@
                                                  out_key :> IntResult(cp_tagged[k]))>>
        /\ \A i \in DOMAIN CountsForwarded :
              CountsForwarded[i].tup[key_out].v \in DOMAIN cp_tagged

\* A stream that ended after tuples in epochs 0 and 2 and none in epoch 1,
\* with more than one tuple in an epoch.
C33_Witness ==
    /\ cp_done
    /\ DOMAIN cp_tagged = {0, 2}
    /\ cp_n >= 3
    /\ Len(CountsForwarded) = 2

====
